---- MODULE Spec2Model ----
(***************************************************************************)
(* A model of the system-call gateway: the sandbox path sanitizer and the  *)
(* file operations built on it (src/src/lib/syscalls.ts), the whitelisted  *)
(* command runner (same file), the policy check (lib/policies), the audit  *)
(* writer (src/src/lib/logging.ts) and the POST /api/syscall pipeline with *)
(* the route middleware in front of it.                                    *)
(*                                                                         *)
(* Strings the code inspects character by character (paths, commands) are  *)
(* sequences of one-character strings.                                     *)
(***************************************************************************)
EXTENDS Integers, Sequences, FiniteSets, TLC

\* ------------------------------------------------------------ bounds
MaxPathLen == 5
MaxCmdParts == 4
MaxReq == 2

VARIABLES
    \* ---- file operations (SpecPath)
    userPath,     \* the path string handed to the file operation
    fsPc,         \* "ready" before the operation, "done" after it
    fsAccess,     \* host filesystem accesses made: set of [kind, path]
    fsResult,     \* "none" | "ok" | "sandboxError" | "hostError"
    \* ---- runSafeCommand (SpecCmd)
    command,      \* the command string handed to runSafeCommand
    cmdPc,        \* "ready" | "done"
    spawned,      \* programs the subprocess started: set of words
    execCalls,    \* number of execAsync invocations made
    cmdResult,    \* "none" | "ok" | "notWhitelisted" | "execError"
    \* ---- storage and the POST /api/syscall pipeline (Spec)
    systemCalls,  \* SystemCall table: name -> [enabled, allowedRoles]
    policies,     \* Policy table: set of rows, unique on (role, syscallName)
    logs,         \* SystemCallLog table, in insertion order
    now,          \* the clock, in milliseconds
    req,          \* the requests: id -> the handler's position and locals
    \* ---- users, logins and the administrative routes (SpecAdmin)
    users,        \* User table: set of [id, email, role, isActive]
    loginAttempts,\* LoginAttempt table, in insertion order
    created,      \* the number of User rows created since seeding
    adminResp,    \* the last response of an administrative route
    \* ---- GET /api/logs and GET /api/dashboard (SpecView)
    view,         \* the last response of a read route, with caller and query
    \* ---- signing in (SpecAuth)
    logins,       \* the authentication attempts made, in order, with their outcome
    \* ---- executeSyscall called directly (SpecExec)
    execCall,     \* [pc, name, params, result]
    \* ---- the sandbox's files (SpecFiles)
    files,        \* resolved path -> bytes stored
    fileOps       \* the file operations completed, in order, with what they returned

pipeVars == <<systemCalls, policies, logs, now, req>>
fsVars == <<userPath, fsPc, fsAccess, fsResult>>
cmdVars == <<command, cmdPc, spawned, execCalls, cmdResult>>
adminVars == <<users, loginAttempts, created, adminResp>>
fileVars == <<files, fileOps>>
sideVars == <<users, loginAttempts, created, adminResp, view, logins, execCall, files, fileOps>>
vars == <<userPath, fsPc, fsAccess, fsResult,
          command, cmdPc, spawned, execCalls, cmdResult,
          systemCalls, policies, logs, now, req,
          users, loginAttempts, created, adminResp, view, logins, execCall, files, fileOps>>

\* ------------------------------------------------------------ strings
\* All sequences over alphabet A of length at most n.
RECURSIVE StringsUpTo(_, _)
StringsUpTo(A, n) ==
    IF n = 0 THEN {<<>>}
    ELSE LET shorter == StringsUpTo(A, n - 1)
         IN  shorter \cup {Append(s, c) : s \in {t \in shorter : Len(t) = n - 1}, c \in A}

\* String.prototype.startsWith
startsWith(s, prefix) ==
    /\ Len(prefix) <= Len(s)
    /\ SubSeq(s, 1, Len(prefix)) = prefix

\* s.split(sep) for a one-character separator: the pieces between separators.
RECURSIVE SplitFrom(_, _, _, _)
SplitFrom(s, sep, i, cur) ==
    IF i > Len(s) THEN <<cur>>
    ELSE IF s[i] = sep THEN <<cur>> \o SplitFrom(s, sep, i + 1, <<>>)
    ELSE SplitFrom(s, sep, i + 1, Append(cur, s[i]))

split(s, sep) == SplitFrom(s, sep, 1, <<>>)

\* ------------------------------------------------------------ storage
Roles == {"ADMIN", "POWER_USER", "VIEWER"}

\* A nullable number is the empty set (null) or the singleton of its value.
Null == {}

\* The allowedRoles column is text.  Text written by JSON.stringify is kept as
\* the sequence of role names it encodes; any other text is NotJson.
NotJson == <<"not json">>

JSONstringify(roleList) == roleList

\* JSON.parse(text): throws on text that is no JSON
JSONparse(text) ==
    IF text = NotJson THEN [threw |-> TRUE, value |-> <<>>]
    ELSE [threw |-> FALSE, value |-> text]

\* Array.prototype.includes
includes(list, x) == \E i \in 1..Len(list) : list[i] = x

\* The system calls written by the seed, with their allowedRoles.
SeedAllowedRoles ==
    [ listDirectory  |-> <<"ADMIN", "POWER_USER", "VIEWER">>,
      readFile       |-> <<"ADMIN", "POWER_USER", "VIEWER">>,
      writeFile      |-> <<"ADMIN", "POWER_USER">>,
      deleteFile     |-> <<"ADMIN">>,
      getSystemInfo  |-> <<"ADMIN", "POWER_USER", "VIEWER">>,
      listProcesses  |-> <<"ADMIN", "POWER_USER">>,
      runSafeCommand |-> <<"ADMIN">> ]

SeedSystemCalls ==
    [n \in DOMAIN SeedAllowedRoles |->
        [enabled |-> TRUE, allowedRoles |-> JSONstringify(SeedAllowedRoles[n])]]

\* The seed's policies: one allowed row per eligible role, viewers capped at 10.
SeedPolicies ==
    { [role |-> r, syscallName |-> n, allowed |-> TRUE,
       maxExecutions |-> IF r = "VIEWER" THEN {10} ELSE Null] :
        r \in Roles, n \in DOMAIN SeedAllowedRoles } \cap
    { row \in [role : Roles, syscallName : DOMAIN SeedAllowedRoles,
               allowed : {TRUE}, maxExecutions : {Null, {10}}] :
        includes(SeedAllowedRoles[row.syscallName], row.role) }

\* The seed's accounts.
SeedUsers ==
    { [id |-> "admin", email |-> "admin@syscall.local", role |-> "ADMIN", isActive |-> TRUE],
      [id |-> "power", email |-> "power@syscall.local", role |-> "POWER_USER", isActive |-> TRUE],
      [id |-> "viewer", email |-> "viewer@syscall.local", role |-> "VIEWER", isActive |-> TRUE] }

\* ------------------------------------------------------------ request inputs
\* A session token carries the user id and the role it was issued with.
NoToken == [id |-> "", role |-> ""]

Tokens ==
    { [id |-> "admin", role |-> "ADMIN"],
      [id |-> "viewer", role |-> "VIEWER"],
      [id |-> "viewer2", role |-> "VIEWER"] }

\* Operation names a client sends: none, one the registry lacks, one only
\* ADMIN and POWER_USER are eligible for, one everybody is eligible for.
NameInputs == {"", "noSuchCall", "writeFile", "getSystemInfo"}

\* A JSON value as far as the code looks at it: its type and its length.
Absent == [type |-> "absent", len |-> 0]

Str(n) == [type |-> "string", len |-> n]

Arr(n) == [type |-> "array", len |-> n]

\* parameters: undefined, or an object with (some of) path, content, command
\* and the sensitive fields password and apiKey
NoParams == [defined |-> FALSE, path |-> Absent, content |-> Absent, command |-> Absent, password |-> Absent, apiKey |-> Absent]

ParamInputs ==
    { NoParams,
      [defined |-> TRUE, path |-> Str(1), content |-> Str(2), command |-> Absent, password |-> Absent, apiKey |-> Absent],
      [defined |-> TRUE, path |-> Str(1), content |-> Arr(501), command |-> Absent, password |-> Absent, apiKey |-> Absent] }

\* ------------------------------------------------------------ syscallSchemas
NonEmptyString(v) == v.type = "string" /\ v.len >= 1

\* schema.safeParse(parameters).success; unknown keys are ignored
SchemaAccepts(name, p) ==
    CASE name \in {"listDirectory", "readFile", "deleteFile"} ->
            p.defined /\ NonEmptyString(p.path)
      [] name = "writeFile" ->
            p.defined /\ NonEmptyString(p.path) /\ p.content.type = "string"
      [] name = "runSafeCommand" ->
            p.defined /\ NonEmptyString(p.command)
      [] OTHER -> TRUE

\* ------------------------------------------------------------ checkPolicy
Allowed == [allowed |-> TRUE, reason |-> "", limit |-> Null]

Denied(reason) == [allowed |-> FALSE, reason |-> reason, limit |-> Null]

RateLimited(max) == [allowed |-> FALSE, reason |-> "Rate limit exceeded", limit |-> max]

OneHourMs == 60 * 60 * 1000

\* if (policy?.maxExecutions): null and 0 are falsy
Truthy(maxExecutions) == \E n \in maxExecutions : n # 0

\* a role test that lets every role pass when the list does not parse
RoleEligibleFailOpen(allowedRolesText, role) ==
    LET parsed == JSONparse(allowedRolesText)
    IN  parsed.threw \/ includes(parsed.value, role)

\* The role test of checkPolicy.
RoleEligible(allowedRolesText, role) ==
    LET parsed == JSONparse(allowedRolesText)
        allowedRoles == IF parsed.threw THEN <<>> ELSE parsed.value
    IN  includes(allowedRoles, role)

\* a check that looks at the policy row before the enabled flag
checkPolicyAfterFindRowFirst(found, systemCall, rows, role) ==
    LET mine == {p \in rows : p.role = role}
    IN  IF ~found
            THEN [decided |-> TRUE, result |-> Denied("System call not found"), max |-> Null]
        ELSE IF \E p \in mine : ~p.allowed
            THEN [decided |-> TRUE, result |-> Denied("Policy denies access"), max |-> Null]
        ELSE IF ~systemCall.enabled
            THEN [decided |-> TRUE, result |-> Denied("System call is disabled"), max |-> Null]
        ELSE IF ~RoleEligible(systemCall.allowedRoles, role)
            THEN [decided |-> TRUE,
                  result |-> Denied("Insufficient permissions for this system call"),
                  max |-> Null]
        ELSE IF \E p \in mine : Truthy(p.maxExecutions)
            THEN [decided |-> FALSE, result |-> Allowed,
                  max |-> (CHOOSE p \in mine : TRUE).maxExecutions]
        ELSE [decided |-> TRUE, result |-> Allowed, max |-> Null]

\* checkPolicy from the result of systemCall.findUnique({include: policies})
\* up to the rate-limit count: [decided, result, max].  found = FALSE is the
\* null result; rows are the policies of the system call.
checkPolicyAfterFind(found, systemCall, rows, role) ==
    LET mine == {p \in rows : p.role = role}
    IN  IF ~found
            THEN [decided |-> TRUE, result |-> Denied("System call not found"), max |-> Null]
        ELSE IF ~systemCall.enabled
            THEN [decided |-> TRUE, result |-> Denied("System call is disabled"), max |-> Null]
        ELSE IF ~RoleEligible(systemCall.allowedRoles, role)
            THEN [decided |-> TRUE,
                  result |-> Denied("Insufficient permissions for this system call"),
                  max |-> Null]
        ELSE IF \E p \in mine : ~p.allowed
            THEN [decided |-> TRUE, result |-> Denied("Policy denies access"), max |-> Null]
        ELSE IF \E p \in mine : Truthy(p.maxExecutions)
            THEN [decided |-> FALSE, result |-> Allowed,
                  max |-> (CHOOSE p \in mine : TRUE).maxExecutions]
        ELSE [decided |-> TRUE, result |-> Allowed, max |-> Null]

\* a count that takes entries of every status
recentAttempts(role, syscallName, oneHourAgo) ==
    Cardinality({i \in 1..Len(logs) :
        /\ logs[i].role = role
        /\ logs[i].syscallName = syscallName
        /\ logs[i].timestamp >= oneHourAgo})

\* prisma.systemCallLog.count({where: {role, syscallName,
\*                                     timestamp: {gte: oneHourAgo}, status: "SUCCESS"}})
recentExecutions(role, syscallName, oneHourAgo) ==
    Cardinality({i \in 1..Len(logs) :
        /\ logs[i].role = role
        /\ logs[i].syscallName = syscallName
        /\ logs[i].timestamp >= oneHourAgo
        /\ logs[i].status = "SUCCESS"})

\* a comparison that lets one more execution through
checkPolicyAfterCountStrict(count, max) ==
    IF \E n \in max : count > n THEN RateLimited(max) ELSE Allowed

\* if (recentExecutions >= policy.maxExecutions)
checkPolicyAfterCount(count, max) ==
    IF \E n \in max : count >= n THEN RateLimited(max) ELSE Allowed

\* checkPolicy(role, syscallName) with the storage answering, at the
\* present instant
checkPolicy(role, syscallName) ==
    LET found == syscallName \in DOMAIN systemCalls
        after == checkPolicyAfterFind(
                     found,
                     IF found THEN systemCalls[syscallName]
                     ELSE [enabled |-> FALSE, allowedRoles |-> NotJson],
                     {p \in policies : p.syscallName = syscallName},
                     role)
    IN  IF after.decided THEN after.result
        ELSE checkPolicyAfterCount(recentExecutions(role, syscallName, now - OneHourMs),
                                   after.max)

\* a catch block that lets the request through
checkPolicyFailOpen == Allowed

\* the catch block of checkPolicy
checkPolicyFailed == Denied("Policy check failed")

\* ------------------------------------------------------------ logSystemCall
\* sanitizeParameters throws when content is truthy, has a length above 500
\* and no substring method (anything but a string).
sanitizeParametersThrows(p) ==
    /\ p.defined
    /\ p.content.type \notin {"absent", "string"}
    /\ p.content.len > 500

\* The fields sanitizeParameters redacts, as far as the parameter objects of
\* the model have them.
sensitiveFields == {"password", "token", "secret", "key", "apiKey"}

Redacted == [type |-> "redacted", len |-> 10]

\* content.substring(0, 500) + "... [truncated]"
Truncated(v) == [type |-> "truncated", len |-> 500]

\* a sanitizer that truncates but redacts nothing
sanitizeParametersTruncateOnly(p) ==
    [f \in DOMAIN p |->
        IF f = "content" /\ p[f].type = "string" /\ p[f].len > 500 THEN Truncated(p[f])
        ELSE p[f]]

\* sanitizeParameters(params), when it does not throw
sanitizeParameters(p) ==
    [f \in DOMAIN p |->
        IF f = "defined" THEN p[f]
        ELSE IF f \in sensitiveFields /\ p[f].type # "absent" THEN Redacted
        ELSE IF f = "content" /\ p[f].type = "string" /\ p[f].len > 500 THEN Truncated(p[f])
        ELSE p[f]]

\* a logSystemCall without its catch block
logSystemCallRethrows(parameters, dbOk) ==
    (parameters.defined /\ sanitizeParametersThrows(parameters)) \/ ~dbOk

\* Whether logSystemCall throws: its whole body is inside try/catch, and the
\* catch block only reports.
logSystemCallThrows(parameters, dbOk) == FALSE

\* logSystemCall(entry): the row is created, with the sanitized parameters
\* (null when there are none), unless sanitizing the parameters throws or
\* the storage write fails.
logSystemCall(entry, parameters, dbOk) ==
    IF (parameters.defined /\ sanitizeParametersThrows(parameters)) \/ ~dbOk
    THEN logs
    ELSE Append(logs, entry @@ [timestamp |-> now,
                                parameters |-> IF parameters.defined
                                               THEN sanitizeParameters(parameters)
                                               ELSE NoParams])

\* ------------------------------------------------------------ middleware
\* middleware(request) for a request path: what it does before any route runs
publicRoutes == {"/login", "/register"}

middleware(token, pathname) ==
    IF token = NoToken /\ pathname \notin publicRoutes THEN "redirect:/login"
    ELSE IF token # NoToken /\ pathname \in publicRoutes THEN "redirect:/dashboard"
    ELSE IF pathname = "/admin" /\ token.role # "ADMIN" THEN "redirect:/dashboard"
    ELSE "next"

\* ------------------------------------------------------------ POST /api/syscall
Response(status, body) == [status |-> status, body |-> body]

NoResponse == Response(0, "")

NoResult == [threw |-> FALSE, success |-> FALSE, error |-> ""]

NewRequest ==
    [ pc |-> "new", token |-> NoToken, syscallName |-> "", parameters |-> NoParams,
      oneHourAgo |-> 0, max |-> Null,
      counted |-> 0,                \* the recent successes checkPolicy counted
      policyCheck |-> Allowed,      \* what checkPolicy returned, once it has
      entry |-> [status |-> "", errorMessage |-> "", parameters |-> NoParams],
                                    \* the audit entry to write
      answer |-> NoResponse,        \* the response that follows the audit write
      response |-> NoResponse,      \* the response returned
      stages |-> <<>>,              \* the stages passed, in order
      checkedAt |-> 0,              \* the clock when checkPolicy began
      readFailed |-> FALSE,         \* a storage read of this request failed
      writeFailed |-> FALSE,        \* the storage write of its audit entry failed
      executed |-> FALSE,           \* the executor was invoked
      result |-> NoResult ]         \* what executeSyscall returned

Stage(r, name) == Append(req[r].stages, name)

\* What clients send in a run: the session tokens, operation names and
\* parameters they choose from, and whether requests may overlap.
AllInputs ==
    [tokens |-> Tokens \cup {NoToken}, names |-> NameInputs, params |-> ParamInputs,
     overlap |-> FALSE]

InFlight(r) == req[r].pc \notin {"new", "done"}

\* The middleware, getServerSession, req.json() and the name check.  Requests
\* arrive in the order of their ids.
Arrive(r, in) ==
    /\ req[r].pc = "new"
    /\ \A q \in DOMAIN req : q < r => req[q].pc # "new"
    /\ in.overlap \/ \A q \in DOMAIN req : ~InFlight(q)
    /\ \E token \in in.tokens :
         IF middleware(token, "/api/syscall") # "next"
         THEN req' = [req EXCEPT ![r].pc = "responded",
                                 ![r].stages = Stage(r, "authenticate") \o <<"respond">>,
                                 ![r].response = Response(307, middleware(token, "/api/syscall"))]
         ELSE IF token = NoToken
         THEN req' = [req EXCEPT ![r].pc = "responded",
                                 ![r].stages = Stage(r, "authenticate") \o <<"respond">>,
                                 ![r].response = Response(401, "Unauthorized")]
         ELSE \E name \in in.names :
                IF name = ""
                THEN req' = [req EXCEPT ![r].pc = "responded",
                                        ![r].token = token,
                                        ![r].stages = Stage(r, "authenticate") \o <<"respond">>,
                                        ![r].response =
                                            Response(400, "System call name is required")]
                ELSE \E parameters \in in.params :
                       req' = [req EXCEPT ![r].pc = "findSyscall",
                                          ![r].token = token,
                                          ![r].syscallName = name,
                                          ![r].parameters = parameters,
                                          ![r].stages = Stage(r, "authenticate")]
    /\ UNCHANGED <<systemCalls, policies, logs, now>>
    /\ UNCHANGED <<fsVars, cmdVars, sideVars>>

\* a handler that validates the parameters before it looks at the decision
AfterPolicyValidateFirst(r, result, stagesSoFar) ==
    IF ~SchemaAccepts(req[r].syscallName, req[r].parameters)
    THEN [req[r] EXCEPT !.pc = "log",
                        !.policyCheck = result,
                        !.stages = Append(stagesSoFar, "validate"),
                        !.entry = [status |-> "ERROR", errorMessage |-> "Validation error",
                                   parameters |-> req[r].parameters],
                        !.answer = Response(400, "Invalid parameters")]
    ELSE IF ~result.allowed
    THEN [req[r] EXCEPT !.pc = "log",
                        !.policyCheck = result,
                        !.stages = Append(stagesSoFar, "validate"),
                        !.entry = [status |-> "DENIED", errorMessage |-> result.reason,
                                   parameters |-> req[r].parameters],
                        !.answer = Response(403, result.reason)]
    ELSE [req[r] EXCEPT !.pc = "execute",
                        !.policyCheck = result,
                        !.stages = Append(stagesSoFar, "validate")]

\* What follows checkPolicy's result: the DENIED entry, or parameter
\* validation and then the ERROR entry or the executor.
AfterPolicy(r, result, stagesSoFar) ==
    IF ~result.allowed
    THEN [req[r] EXCEPT !.pc = "log",
                        !.policyCheck = result,
                        !.stages = stagesSoFar,
                        !.entry = [status |-> "DENIED", errorMessage |-> result.reason,
                                   parameters |-> req[r].parameters],
                        !.answer = Response(403, result.reason)]
    ELSE IF ~SchemaAccepts(req[r].syscallName, req[r].parameters)
    THEN [req[r] EXCEPT !.pc = "log",
                        !.policyCheck = result,
                        !.stages = Append(stagesSoFar, "validate"),
                        !.entry = [status |-> "ERROR", errorMessage |-> "Validation error",
                                   parameters |-> req[r].parameters],
                        !.answer = Response(400, "Invalid parameters")]
    ELSE [req[r] EXCEPT !.pc = "execute",
                        !.policyCheck = result,
                        !.stages = Append(stagesSoFar, "validate")]

\* prisma.systemCall.findUnique({where: {name}}) in the route; a storage
\* failure reaches the route's catch block.  The entry for an unknown name
\* is written without the parameters.
FindSyscall(r) ==
    /\ req[r].pc = "findSyscall"
    /\ \E dbOk \in BOOLEAN :
         IF ~dbOk
         THEN req' = [req EXCEPT ![r].pc = "responded",
                                 ![r].readFailed = TRUE,
                                 ![r].stages = Stage(r, "lookup") \o <<"respond">>,
                                 ![r].response = Response(500, "Internal server error")]
         ELSE IF req[r].syscallName \notin DOMAIN systemCalls
         THEN req' = [req EXCEPT ![r].pc = "log",
                                 ![r].stages = Stage(r, "lookup"),
                                 ![r].entry = [status |-> "ERROR",
                                               errorMessage |-> "System call not found",
                                               parameters |-> NoParams],
                                 ![r].answer = Response(404, "System call not found")]
         ELSE req' = [req EXCEPT ![r].pc = "cpFind",
                                 ![r].stages = Stage(r, "lookup")]
    /\ UNCHANGED <<systemCalls, policies, logs, now>>
    /\ UNCHANGED <<fsVars, cmdVars, sideVars>>

\* checkPolicy up to its first await after findUnique.
CheckPolicyFind(r) ==
    /\ req[r].pc = "cpFind"
    /\ \E dbOk \in BOOLEAN :
         LET name == req[r].syscallName
             found == name \in DOMAIN systemCalls
             after == checkPolicyAfterFind(
                          found,
                          IF found THEN systemCalls[name]
                          ELSE [enabled |-> FALSE, allowedRoles |-> NotJson],
                          {p \in policies : p.syscallName = name},
                          req[r].token.role)
             st == Stage(r, "authorize")
         IN  IF ~dbOk
             THEN req' = [req EXCEPT ![r] =
                            [AfterPolicy(r, checkPolicyFailed, st) EXCEPT !.readFailed = TRUE]]
             ELSE IF after.decided
             THEN req' = [req EXCEPT ![r] = AfterPolicy(r, after.result, st)]
             ELSE req' = [req EXCEPT ![r].pc = "cpCount",
                                     ![r].stages = st,
                                     ![r].checkedAt = now,
                                     ![r].max = after.max,
                                     ![r].oneHourAgo = now - OneHourMs]
    /\ UNCHANGED <<systemCalls, policies, logs, now>>
    /\ UNCHANGED <<fsVars, cmdVars, sideVars>>

\* checkPolicy from prisma.systemCallLog.count to its return.
CheckPolicyCount(r) ==
    /\ req[r].pc = "cpCount"
    /\ \E dbOk \in BOOLEAN :
         LET count == recentExecutions(req[r].token.role, req[r].syscallName,
                                       req[r].oneHourAgo)
         IN  IF ~dbOk
             THEN req' = [req EXCEPT ![r] =
                            [AfterPolicy(r, checkPolicyFailed, req[r].stages)
                                EXCEPT !.readFailed = TRUE]]
             ELSE req' = [req EXCEPT ![r] =
                            [AfterPolicy(r, checkPolicyAfterCount(count, req[r].max),
                                         req[r].stages) EXCEPT !.counted = count]]
    /\ UNCHANGED <<systemCalls, policies, logs, now>>
    /\ UNCHANGED <<fsVars, cmdVars, sideVars>>

\* the names executeSyscall's switch knows
HasExecutor(name) == name \in DOMAIN SeedAllowedRoles

\* What the host can make of an executor's call: the file operations may be
\* refused by sanitizePath, the command by the whitelist, and every host
\* call may fail.
HostOutcomes(name) ==
    CASE name \in {"listDirectory", "readFile", "writeFile", "deleteFile"} ->
            {"ok", "sandboxError", "hostError"}
      [] name = "runSafeCommand" -> {"ok", "notWhitelisted", "hostError"}
      [] OTHER -> {"ok", "hostError"}

\* The body of executeSyscall's try block: the switch and the executor it
\* calls.  [threw, error]: whether it throws, and the message thrown.
callExecutor(name, p, host) ==
    LET failed(msg) == [threw |-> TRUE, error |-> msg]
        hostResult ==
            CASE host = "ok" -> [threw |-> FALSE, error |-> ""]
              [] host = "sandboxError" ->
                    failed("Invalid path: Access denied outside safe directory")
              [] host = "notWhitelisted" ->
                    failed("Command execution failed: Command not whitelisted")
              [] OTHER -> failed("Failed: host error")
    IN  CASE ~HasExecutor(name) -> failed("Unknown system call")
          [] name \in {"getSystemInfo", "listProcesses"} ->
                IF host = "ok" THEN hostResult ELSE failed("Failed: host error")
          [] ~p.defined -> failed("TypeError: cannot read properties of undefined")
          [] name = "listDirectory" /\ p.path.type = "absent" ->
                \* the default path "/"
                IF host = "sandboxError" THEN failed("Failed: host error") ELSE hostResult
          [] name = "runSafeCommand" ->
                IF p.command.type # "string"
                THEN failed("Command execution failed: TypeError")
                ELSE hostResult
          [] name = "writeFile" /\ p.path.type = "string" /\ p.content.type # "string" ->
                \* fs.writeFile refuses data that is no string
                IF host = "ok" THEN failed("Failed: host error") ELSE hostResult
          [] OTHER ->
                IF p.path.type # "string"
                THEN failed("TypeError: userPath.replace is not a function")
                ELSE hostResult

\* an executor dispatch without the catch block
executeSyscallNoCatch(name, p, host) ==
    LET called == callExecutor(name, p, host)
    IN  [threw |-> called.threw, success |-> ~called.threw, error |-> called.error]

\* executeSyscall(syscallName, params): whatever the try block throws is
\* caught and returned as {success: false, error}.
executeSyscall(name, p, host) ==
    LET called == callExecutor(name, p, host)
    IN  [threw |-> FALSE, success |-> ~called.threw, error |-> called.error]

\* parameters || {}
EmptyObject == [NoParams EXCEPT !.defined = TRUE]

\* an execution step that records every outcome as a success
ExecuteLogsSuccess(r) ==
    /\ req[r].pc = "execute"
    /\ \E host \in HostOutcomes(req[r].syscallName) :
         LET result == executeSyscall(req[r].syscallName,
                                      IF req[r].parameters.defined THEN req[r].parameters
                                      ELSE EmptyObject, host)
         IN  req' = [req EXCEPT
                ![r].pc = "log",
                ![r].executed = TRUE,
                ![r].result = result,
                ![r].stages = Stage(r, "execute"),
                ![r].entry = [status |-> "SUCCESS", errorMessage |-> "",
                              parameters |-> req[r].parameters],
                ![r].answer = IF result.success THEN Response(200, "success")
                              ELSE Response(500, result.error)]
    /\ UNCHANGED <<systemCalls, policies, logs, now>>
    /\ UNCHANGED <<fsVars, cmdVars, sideVars>>

\* const result = await executeSyscall(syscallName, parameters || {}); a throw
\* would reach the route's catch block.
Execute(r) ==
    /\ req[r].pc = "execute"
    /\ \E host \in HostOutcomes(req[r].syscallName) :
         LET result == executeSyscall(req[r].syscallName,
                                      IF req[r].parameters.defined THEN req[r].parameters
                                      ELSE EmptyObject, host)
         IN  IF result.threw
             THEN req' = [req EXCEPT
                    ![r].pc = "responded",
                    ![r].executed = TRUE,
                    ![r].result = result,
                    ![r].stages = Stage(r, "execute") \o <<"respond">>,
                    ![r].response = Response(500, "Internal server error")]
             ELSE req' = [req EXCEPT
                    ![r].pc = "log",
                    ![r].executed = TRUE,
                    ![r].result = result,
                    ![r].stages = Stage(r, "execute"),
                    ![r].entry = IF result.success
                                 THEN [status |-> "SUCCESS", errorMessage |-> "",
                                       parameters |-> req[r].parameters]
                                 ELSE [status |-> "ERROR", errorMessage |-> result.error,
                                       parameters |-> req[r].parameters],
                    ![r].answer = IF result.success THEN Response(200, "success")
                                  ELSE Response(500, result.error)]
    /\ UNCHANGED <<systemCalls, policies, logs, now>>
    /\ UNCHANGED <<fsVars, cmdVars, sideVars>>

\* await logSystemCall({...}); return NextResponse.json(...)
LogAndRespond(r) ==
    /\ req[r].pc = "log"
    /\ \E dbOk \in BOOLEAN :
         /\ logs' = logSystemCall(
                      [req |-> r, userId |-> req[r].token.id, role |-> req[r].token.role,
                       syscallName |-> req[r].syscallName, status |-> req[r].entry.status,
                       errorMessage |-> req[r].entry.errorMessage,
                       limit |-> req[r].policyCheck.limit],
                      req[r].entry.parameters, dbOk)
         /\ req' = [req EXCEPT ![r].pc = "responded",
                               ![r].writeFailed = ~dbOk,
                               ![r].stages = Stage(r, "log") \o <<"respond">>,
                               ![r].response =
                                   IF logSystemCallThrows(req[r].entry.parameters, dbOk)
                                   THEN Response(500, "Internal server error")
                                   ELSE req[r].answer]
    /\ UNCHANGED <<systemCalls, policies, now>>
    /\ UNCHANGED <<fsVars, cmdVars, sideVars>>

\* The handler has returned: its locals are gone.
Finish(r) ==
    /\ req[r].pc = "responded"
    /\ req' = [req EXCEPT ![r] = [NewRequest EXCEPT !.pc = "done"]]
    /\ UNCHANGED <<systemCalls, policies, logs, now>>
    /\ UNCHANGED <<fsVars, cmdVars, sideVars>>

\* ------------------------------------------------------------ administration
\* The policy rows an administrator submits: one that allows a role the
\* operation does not list, and for a listed role a cap of 1, a cap of 0 and
\* a denial.
PolicyInputs ==
    { [role |-> "VIEWER", syscallName |-> "writeFile", allowed |-> TRUE, maxExecutions |-> Null],
      [role |-> "VIEWER", syscallName |-> "getSystemInfo", allowed |-> TRUE, maxExecutions |-> {1}],
      [role |-> "VIEWER", syscallName |-> "getSystemInfo", allowed |-> TRUE, maxExecutions |-> {0}],
      [role |-> "VIEWER", syscallName |-> "getSystemInfo", allowed |-> FALSE, maxExecutions |-> Null] }

ToggleCalls == {"getSystemInfo"}

\* upsertPolicy(role, systemCallId, allowed, maxExecutions)
upsertPolicy(role, syscallName, allowed, maxExecutions) ==
    {p \in policies : ~(p.role = role /\ p.syscallName = syscallName)}
        \cup {[role |-> role, syscallName |-> syscallName, allowed |-> allowed,
               maxExecutions |-> maxExecutions]}

\* What stands before the work of an administrative handler: the
\* middleware, then the handler's own check of the session's role.
AdminGate(caller, pathname) ==
    IF middleware(caller, pathname) # "next" THEN 307
    ELSE IF caller = NoToken \/ caller.role # "ADMIN" THEN 403
    ELSE 200

\* The last administrative response, [route, caller, status]: none yet, or
\* not observed at all (the specifications that do not look at it).
NoAdminResp == [route |-> "", caller |-> NoToken, status |-> 0]

Unobserved == [route |-> "unobserved", caller |-> NoToken, status |-> 0]

Answer(route, caller, status) ==
    IF adminResp = Unobserved THEN Unobserved
    ELSE [route |-> route, caller |-> caller, status |-> status]

\* POST /api/admin/policies
PostPolicy(bodies) ==
    /\ \E caller \in Tokens \cup {NoToken}, body \in bodies :
         LET gate == AdminGate(caller, "/api/admin/policies") IN
         /\ policies' = IF gate = 200
                        THEN upsertPolicy(body.role, body.syscallName, body.allowed,
                                          body.maxExecutions)
                        ELSE policies
         /\ adminResp' = Answer("POST /api/admin/policies", caller, gate)
    /\ UNCHANGED <<systemCalls, logs, now, req>>
    /\ UNCHANGED <<fsVars, cmdVars, users, loginAttempts, created, view, logins, execCall, fileVars>>

\* a toggle that also empties the operation's list of roles
toggleSystemCallAndRoles(name, enabled) ==
    [systemCalls EXCEPT ![name] = [enabled |-> enabled, allowedRoles |-> <<>>]]

\* toggleSystemCall(id, enabled)
toggleSystemCall(name, enabled) == [systemCalls EXCEPT ![name].enabled = enabled]

\* PATCH /api/admin/policies
PatchPolicy ==
    /\ \E caller \in Tokens \cup {NoToken}, name \in ToggleCalls, enabled \in BOOLEAN :
         LET gate == AdminGate(caller, "/api/admin/policies") IN
         /\ systemCalls' = IF gate = 200 THEN toggleSystemCall(name, enabled)
                           ELSE systemCalls
         /\ adminResp' = Answer("PATCH /api/admin/policies", caller, gate)
    /\ UNCHANGED <<policies, logs, now, req>>
    /\ UNCHANGED <<fsVars, cmdVars, users, loginAttempts, created, view, logins, execCall, fileVars>>

\* ------------------------------------------------------------ the clock
\* The instants the clock passes through: the start, one hour later, and the
\* first instant after that.
ClockValues == {0, OneHourMs, OneHourMs + 1}

Tick ==
    /\ \E t \in ClockValues : t > now /\ now' = t
    /\ UNCHANGED <<systemCalls, policies, logs, req>>
    /\ UNCHANGED <<fsVars, cmdVars, sideVars>>

InitPipe ==
    /\ systemCalls = SeedSystemCalls
    /\ policies = SeedPolicies
    /\ logs = <<>>
    /\ now = 0
    /\ req = [r \in 1..MaxReq |-> NewRequest]

\* ------------------------------------------------------------ sanitizePath
\* const SAFE_ROOT = process.env.SAFE_ROOT_DIR || "./safe-root"
SAFE_ROOT == <<".", "/", "r">>

\* process.cwd(), which path.resolve prepends to a relative path
Cwd == <<"/", "w">>

PathChars == {".", "/", "\\", "w", "r", "x"}

\* userPath.replace(/\.\./g, ""): one left-to-right pass, non-overlapping
RECURSIVE RemoveDotDotFrom(_, _)
RemoveDotDotFrom(s, i) ==
    IF i > Len(s) THEN <<>>
    ELSE IF i < Len(s) /\ s[i] = "." /\ s[i + 1] = "." THEN RemoveDotDotFrom(s, i + 2)
    ELSE <<s[i]>> \o RemoveDotDotFrom(s, i + 1)

RemoveDotDot(s) == RemoveDotDotFrom(s, 1)

\* .replace(/\\/g, "/")
BackslashToSlash(s) == [i \in 1..Len(s) |-> IF s[i] = "\\" THEN "/" ELSE s[i]]

\* path.resolve's normalisation of the segments of an absolute path:
\* "" and "." are dropped, ".." removes the segment before it.
RECURSIVE NormalizeSegs(_, _, _)
NormalizeSegs(segs, i, acc) ==
    IF i > Len(segs) THEN acc
    ELSE IF segs[i] = <<>> \/ segs[i] = <<".">> THEN NormalizeSegs(segs, i + 1, acc)
    ELSE IF segs[i] = <<".", ".">>
         THEN NormalizeSegs(segs, i + 1,
                            IF acc = <<>> THEN acc ELSE SubSeq(acc, 1, Len(acc) - 1))
    ELSE NormalizeSegs(segs, i + 1, Append(acc, segs[i]))

RECURSIVE JoinAbs(_, _)
JoinAbs(segs, i) ==
    IF i > Len(segs) THEN <<>>
    ELSE <<"/">> \o segs[i] \o JoinAbs(segs, i + 1)

\* The absolute, normalised form of an absolute path string.
NormalizeAbs(p) ==
    LET segs == NormalizeSegs(split(p, "/"), 1, <<>>)
    IN  IF segs = <<>> THEN <<"/">> ELSE JoinAbs(segs, 1)

IsAbsolute(p) == Len(p) > 0 /\ p[1] = "/"

\* path.resolve(a, b) on POSIX: arguments are taken right to left until an
\* absolute one is found, empty arguments are skipped, the working directory
\* is the last resort; the concatenation is normalised.
resolve2(a, b) ==
    IF IsAbsolute(b) THEN NormalizeAbs(b)
    ELSE LET tail == IF b = <<>> THEN <<>> ELSE <<"/">> \o b
             base == IF IsAbsolute(a) THEN a
                     ELSE IF a = <<>> THEN Cwd
                     ELSE Cwd \o <<"/">> \o a
         IN  NormalizeAbs(base \o tail)

resolve1(a) == resolve2(a, <<>>)

\* sanitizePath(userPath): [raised, path]
sanitizePath(p) ==
    LET cleaned == BackslashToSlash(RemoveDotDot(p))
        safePath == resolve2(SAFE_ROOT, cleaned)
        safeRootResolved == resolve1(SAFE_ROOT)
    IN  IF ~startsWith(safePath, safeRootResolved)
        THEN [raised |-> TRUE, path |-> <<>>]
        ELSE [raised |-> FALSE, path |-> safePath]

\* ------------------------------------------------------------ file operations
\* Each operation sanitizes first; a raise leaves the host untouched.  The
\* host call itself may succeed or fail (missing file, directory, ...).
FileOp(p, kinds, hostOk) ==
    LET s == sanitizePath(p)
    IN  /\ fsPc = "ready"
        /\ fsPc' = "done"
        /\ IF s.raised
           THEN /\ fsResult' = "sandboxError"
                /\ fsAccess' = fsAccess
           ELSE /\ fsResult' = IF hostOk THEN "ok" ELSE "hostError"
                /\ fsAccess' = fsAccess \cup {[kind |-> k, path |-> s.path] : k \in kinds}
        /\ UNCHANGED userPath
        /\ UNCHANGED <<cmdVars, pipeVars, sideVars>>

listDirectory == \E hostOk \in BOOLEAN : FileOp(userPath, {"list"}, hostOk)

readFile == \E hostOk \in BOOLEAN : FileOp(userPath, {"read"}, hostOk)

writeFile == \E hostOk \in BOOLEAN : FileOp(userPath, {"mkdirParent", "write"}, hostOk)

deleteFile == \E hostOk \in BOOLEAN : FileOp(userPath, {"stat", "delete"}, hostOk)

\* The host's files under the sandbox root, each path a directory or a file
\* with its bytes; at the start the root directory alone (initializeSafeRoot).
DirNode == [kind |-> "dir", bytes |-> <<>>]

SandboxOnly == [q \in {resolve1(SAFE_ROOT)} |-> DirNode]

\* No read request, direct executor call or file operation has been made.
NoQuery == [userId |-> "", status |-> "", role |-> "", limit |-> 0, offset |-> 0]

NoCounts == [successfulCalls |-> 0, deniedCalls |-> 0, errorCalls |-> 0, callsByRole |-> {}]

NoView ==
    [route |-> "", caller |-> NoToken, query |-> NoQuery, status |-> 0,
     entries |-> <<>>, total |-> 0, counts |-> NoCounts]

NoExecCall == [pc |-> "done", name |-> "", params |-> NoParams, result |-> NoResult]

\* The seeded accounts; the administrative responses are not observed.
IdleAdmin ==
    /\ users = SeedUsers
    /\ loginAttempts = <<>>
    /\ created = 0
    /\ adminResp = Unobserved

IdleView == view = NoView /\ logins = <<>>

IdleExec == execCall = NoExecCall

IdleFiles ==
    /\ files = SandboxOnly
    /\ fileOps = <<>>

IdleSide == IdleAdmin /\ IdleView /\ IdleExec /\ IdleFiles

IdleFs ==
    /\ userPath = <<>>
    /\ fsPc = "done"
    /\ fsAccess = {}
    /\ fsResult = "none"

IdleCmd ==
    /\ command = <<>>
    /\ cmdPc = "done"
    /\ spawned = {}
    /\ execCalls = 0
    /\ cmdResult = "none"

InitPath ==
    /\ userPath \in StringsUpTo(PathChars, MaxPathLen)
    /\ fsPc = "ready"
    /\ fsAccess = {}
    /\ fsResult = "none"
    /\ IdleCmd
    /\ IdleSide
    /\ InitPipe

NextPath == listDirectory \/ readFile \/ writeFile \/ deleteFile

SpecPath == InitPath /\ [][NextPath]_vars

\* ------------------------------------------------------------ runSafeCommand
\* const WHITELISTED_COMMANDS = ["dir", "echo", "date", "time"]
WHITELISTED_COMMANDS ==
    { <<"d", "i", "r">>, <<"e", "c", "h", "o">>, <<"d", "a", "t", "e">>, <<"t", "i", "m", "e">> }

\* The pieces command strings are assembled from: a whitelisted word, the
\* same word capitalised, a word outside the whitelist, the two blanks and
\* the shell's command separator.
CmdParts == { <<"d", "i", "r">>, <<"D", "i", "r">>, <<"d">>, <<" ">>, <<"\t">>, <<";">> }

\* All concatenations of at most n pieces.
RECURSIVE ConcatsUpTo(_)
ConcatsUpTo(n) ==
    IF n = 0 THEN {<<>>}
    ELSE LET shorter == ConcatsUpTo(n - 1)
         IN  shorter \cup {s \o part : s \in shorter, part \in CmdParts}

\* the characters String.prototype.trim removes (those of the alphabet)
TrimChars == {" ", "\t"}

RECURSIVE trimStart(_)
trimStart(s) ==
    IF s # <<>> /\ Head(s) \in TrimChars THEN trimStart(Tail(s)) ELSE s

RECURSIVE trimEnd(_)
trimEnd(s) ==
    IF s # <<>> /\ s[Len(s)] \in TrimChars THEN trimEnd(SubSeq(s, 1, Len(s) - 1)) ELSE s

trim(s) == trimEnd(trimStart(s))

toLowerCase(s) == [i \in 1..Len(s) |-> IF s[i] = "D" THEN "d" ELSE s[i]]

\* command.trim().split(" ")[0].toLowerCase()
cmdNameOf(cmd) == toLowerCase(split(trim(cmd), " ")[1])

\* a whitelist test that accepts any name beginning with a whitelisted word
IsWhitelistedPrefix(cmdName) == \E w \in WHITELISTED_COMMANDS : startsWith(cmdName, w)

\* WHITELISTED_COMMANDS.includes(cmdName)
IsWhitelisted(cmdName) == cmdName \in WHITELISTED_COMMANDS

\* What exec(command) starts: the string goes to the shell unchanged; the
\* shell runs the simple commands separated by ";" one after another, and the
\* program of each is its first blank-separated word.
RECURSIVE FirstWord(_, _)
FirstWord(s, i) ==
    IF i > Len(s) \/ s[i] \in {" ", "\t"} THEN <<>>
    ELSE <<s[i]>> \o FirstWord(s, i + 1)

ShellPrograms(cmd) ==
    LET pieces == split(cmd, ";")
        words == {FirstWord(trimStart(pieces[i]), 1) : i \in 1..Len(pieces)}
    IN  words \ {<<>>}

runSafeCommand ==
    /\ cmdPc = "ready"
    /\ cmdPc' = "done"
    /\ IF ~IsWhitelisted(cmdNameOf(command))
       THEN /\ cmdResult' = "notWhitelisted"
            /\ UNCHANGED <<spawned, execCalls>>
       ELSE /\ execCalls' = execCalls + 1
            /\ spawned' = spawned \cup ShellPrograms(command)
            /\ \E ok \in BOOLEAN : cmdResult' = IF ok THEN "ok" ELSE "execError"
    /\ UNCHANGED command
    /\ UNCHANGED <<fsVars, pipeVars, sideVars>>

InitCmd ==
    /\ command \in ConcatsUpTo(MaxCmdParts)
    /\ cmdPc = "ready"
    /\ spawned = {}
    /\ execCalls = 0
    /\ cmdResult = "none"
    /\ IdleFs
    /\ IdleSide
    /\ InitPipe

NextCmd == runSafeCommand

SpecCmd == InitCmd /\ [][NextCmd]_vars

\* ------------------------------------------------------------ the pipeline
Init == InitPipe /\ IdleFs /\ IdleCmd /\ IdleSide

\* The steps of the request handlers.
Handle ==
    \/ \E r \in DOMAIN req : FindSyscall(r)
    \/ \E r \in DOMAIN req : CheckPolicyFind(r)
    \/ \E r \in DOMAIN req : CheckPolicyCount(r)
    \/ \E r \in DOMAIN req : Execute(r)
    \/ \E r \in DOMAIN req : LogAndRespond(r)
    \/ \E r \in DOMAIN req : Finish(r)

Next ==
    \/ \E r \in DOMAIN req : Arrive(r, AllInputs)
    \/ Handle
    \/ PostPolicy(PolicyInputs)
    \/ PatchPolicy

Spec == Init /\ [][Next]_vars

\* ------------------------------------------------------------ rate limiting
\* Successive requests of two viewers for one operation, an administrator
\* who caps it at 1 or 2 per hour, and the clock.
MaxRateReq == 3

RateInputs ==
    [tokens |-> {[id |-> "viewer", role |-> "VIEWER"], [id |-> "viewer2", role |-> "VIEWER"]},
     names |-> {"getSystemInfo"}, params |-> {NoParams}, overlap |-> FALSE]

RatePolicyInputs ==
    { [role |-> "VIEWER", syscallName |-> "getSystemInfo", allowed |-> TRUE, maxExecutions |-> {1}],
      [role |-> "VIEWER", syscallName |-> "getSystemInfo", allowed |-> TRUE, maxExecutions |-> {2}] }

InitRate ==
    /\ systemCalls = SeedSystemCalls
    /\ policies = SeedPolicies
    /\ logs = <<>>
    /\ now = 0
    /\ req = [r \in 1..MaxRateReq |-> NewRequest]
    /\ IdleFs
    /\ IdleCmd
    /\ IdleSide

NextRate ==
    \/ \E r \in DOMAIN req : Arrive(r, RateInputs)
    \/ Handle
    \/ PostPolicy(RatePolicyInputs)
    \/ Tick

SpecRate == InitRate /\ [][NextRate]_vars

\* ------------------------------------------------------------ overlapping requests
\* Requests of two viewers for one operation that may overlap: a handler
\* may be anywhere between its checkPolicy and its audit write when another
\* runs.  The administrator has capped the operation for viewers.
MaxRaceReq == 2

RaceCap == 1

RaceInputs ==
    [tokens |-> {[id |-> "viewer", role |-> "VIEWER"], [id |-> "viewer2", role |-> "VIEWER"]},
     names |-> {"getSystemInfo"}, params |-> {NoParams}, overlap |-> TRUE]

InitRace ==
    /\ systemCalls = SeedSystemCalls
    /\ policies = {IF p.role = "VIEWER" /\ p.syscallName = "getSystemInfo"
                   THEN [p EXCEPT !.maxExecutions = {RaceCap}] ELSE p : p \in SeedPolicies}
    /\ logs = <<>>
    /\ now = 0
    /\ req = [r \in 1..MaxRaceReq |-> NewRequest]
    /\ IdleFs
    /\ IdleCmd
    /\ IdleSide

NextRace ==
    \/ \E r \in DOMAIN req : Arrive(r, RaceInputs)
    \/ Handle

SpecRace == InitRace /\ [][NextRace]_vars

\* ------------------------------------------------------------ checkPolicy over tables
\* checkPolicy against whatever the tables hold for one operation: the
\* allowedRoles text well-formed or not, the operation enabled or not, and
\* any policy rows for two roles.
TableRows(role) ==
    {{}} \cup {{[role |-> role, syscallName |-> "writeFile", allowed |-> a, maxExecutions |-> m]} :
                a \in BOOLEAN, m \in {Null, {1}}}

TableInputs ==
    [tokens |-> {[id |-> "admin", role |-> "ADMIN"], [id |-> "viewer", role |-> "VIEWER"]},
     names |-> {"writeFile"},
     params |-> {NoParams,
                 [defined |-> TRUE, path |-> Str(1), content |-> Str(2), command |-> Absent, password |-> Absent, apiKey |-> Absent]},
     overlap |-> FALSE]

InitTables ==
    /\ \E e \in BOOLEAN, text \in {JSONstringify(SeedAllowedRoles["writeFile"]), NotJson} :
         systemCalls = [SeedSystemCalls EXCEPT
                            !["writeFile"] = [enabled |-> e, allowedRoles |-> text]]
    /\ \E adminRows \in TableRows("ADMIN"), viewerRows \in TableRows("VIEWER") :
         policies = {p \in SeedPolicies : p.syscallName # "writeFile"}
                        \cup adminRows \cup viewerRows
    /\ logs = <<>>
    /\ now = 0
    /\ req = [r \in 1..MaxReq |-> NewRequest]
    /\ IdleFs
    /\ IdleCmd
    /\ IdleSide

NextTables ==
    \/ \E r \in DOMAIN req : Arrive(r, TableInputs)
    \/ Handle

SpecTables == InitTables /\ [][NextTables]_vars

\* ------------------------------------------------------------ what the audit log stores
\* Requests of an administrator and of a viewer, whose calls are capped,
\* with parameters that carry sensitive fields and short, long and
\* non-string content.
AuditParamInputs ==
    {NoParams} \cup
    { [defined |-> TRUE, path |-> Str(1), content |-> c, command |-> Absent,
       password |-> pw, apiKey |-> k] :
        c \in {Str(500), Str(501), Arr(2), Arr(501)},
        pw \in {Absent, Str(8)},
        k \in {Absent, Arr(2)} }

AuditInputs ==
    [tokens |-> {[id |-> "admin", role |-> "ADMIN"], [id |-> "viewer", role |-> "VIEWER"]},
     names |-> {"writeFile", "readFile", "noSuchCall"},
     params |-> AuditParamInputs,
     overlap |-> FALSE]

NextAudit ==
    \/ \E r \in DOMAIN req : Arrive(r, AuditInputs)
    \/ Handle

SpecAudit == Init /\ [][NextAudit]_vars

\* ------------------------------------------------------------ GET /api/logs, GET /api/dashboard
MaxViewLogs == 3

Reverse(seq) == [i \in 1..Len(seq) |-> seq[Len(seq) + 1 - i]]

\* take and skip of findMany
Page(seq, skip, take) ==
    SubSeq(seq, skip + 1, IF skip + take < Len(seq) THEN skip + take ELSE Len(seq))

\* getSystemCallLogs(filters) over the rows of table: a filter that is falsy
\* (absent or empty) is not applied; rows come newest first.  The
\* syscallName, startDate and endDate filters narrow the same where-clause.
getSystemCallLogs(table, filters) ==
    LET where(e) ==
            /\ filters.userId # "" => e.userId = filters.userId
            /\ filters.role # "" => e.role = filters.role
            /\ filters.status # "" => e.status = filters.status
        matching == SelectSeq(table, where)
        take == IF filters.limit # 0 THEN filters.limit ELSE 50
    IN  [logs |-> Page(Reverse(matching), filters.offset, take), total |-> Len(matching)]

\* a handler that lets every caller pick the user to look at
LogsResponseTrustsQuery(table, caller, query) ==
    LET result == getSystemCallLogs(table, query)
    IN  [route |-> "/api/logs", caller |-> caller, query |-> query, status |-> 200,
         entries |-> result.logs, total |-> result.total, counts |-> NoCounts]

\* GET /api/logs after the session check: who is not ADMIN is filtered to the
\* own id, an ADMIN may name a user.
LogsResponse(table, caller, query) ==
    LET filters == [query EXCEPT !.userId = IF caller.role # "ADMIN" THEN caller.id
                                            ELSE query.userId]
        result == getSystemCallLogs(table, filters)
    IN  [route |-> "/api/logs", caller |-> caller, query |-> query, status |-> 200,
         entries |-> result.logs, total |-> result.total, counts |-> NoCounts]

\* getDashboardStats(userId) over the rows of table
getDashboardStats(table, userId) ==
    LET where(e) == userId # "" => e.userId = userId
        matching == SelectSeq(table, where)
        count(st) == Cardinality({i \in 1..Len(matching) : matching[i].status = st})
    IN  [totalCalls |-> Len(matching),
         counts |-> [successfulCalls |-> count("SUCCESS"),
                     deniedCalls |-> count("DENIED"),
                     errorCalls |-> count("ERROR"),
                     callsByRole |->
                        {[role |-> ro,
                          count |-> Cardinality({i \in 1..Len(matching) : matching[i].role = ro})] :
                            ro \in {matching[i].role : i \in 1..Len(matching)}}],
         recentLogs |-> Page(Reverse(matching), 0, 10)]

\* GET /api/dashboard after the session check
DashboardResponse(table, caller) ==
    LET stats == getDashboardStats(table, IF caller.role = "ADMIN" THEN "" ELSE caller.id)
    IN  [route |-> "/api/dashboard", caller |-> caller, query |-> NoQuery, status |-> 200,
         entries |-> stats.recentLogs, total |-> stats.totalCalls, counts |-> stats.counts]

\* What either read route answers a caller without session: the middleware's
\* redirect.
ReadRefused(route, token, query) ==
    [NoView EXCEPT !.route = route, !.caller = token, !.query = query,
                   !.status = IF middleware(token, route) # "next" THEN 307 ELSE 401]

QueryInputs ==
    [userId : {"", "viewer2"}, status : {"", "SUCCESS"}, role : {"", "VIEWER"},
     limit : {0, 1}, offset : {0, 1}]

GetLogs ==
    /\ \E token \in Tokens \cup {NoToken}, query \in QueryInputs :
         view' = IF token = NoToken THEN ReadRefused("/api/logs", token, query)
                 ELSE LogsResponse(logs, token, query)
    /\ UNCHANGED <<fsVars, cmdVars, pipeVars>>
    /\ UNCHANGED <<adminVars, logins, execCall, fileVars>>

GetDashboard ==
    /\ \E token \in Tokens \cup {NoToken} :
         view' = IF token = NoToken THEN ReadRefused("/api/dashboard", token, NoQuery)
                 ELSE DashboardResponse(logs, token)
    /\ UNCHANGED <<fsVars, cmdVars, pipeVars>>
    /\ UNCHANGED <<adminVars, logins, execCall, fileVars>>

\* The audit log after up to MaxViewLogs requests of the three accounts.
InitView ==
    /\ \E n \in 0..MaxViewLogs :
         \E who \in [1..n -> Tokens], st \in [1..n -> {"SUCCESS", "DENIED"}] :
            logs = [i \in 1..n |->
                      [req |-> 0, userId |-> who[i].id, role |-> who[i].role,
                       syscallName |-> "getSystemInfo", status |-> st[i],
                       errorMessage |-> IF st[i] = "DENIED" THEN "Policy denies access" ELSE "",
                       limit |-> Null, timestamp |-> i, parameters |-> NoParams]]
    /\ systemCalls = SeedSystemCalls
    /\ policies = SeedPolicies
    /\ now = MaxViewLogs + 1
    /\ req = [r \in 1..MaxReq |-> NewRequest]
    /\ IdleAdmin /\ IdleView /\ IdleExec /\ IdleFiles
    /\ IdleFs /\ IdleCmd

NextView == GetLogs \/ GetDashboard

SpecView == InitView /\ [][NextView]_vars

\* ------------------------------------------------------------ GET /api/syscall
\* a listing that leaves out the test of the enabled flag
availableCallsIgnoringEnabled(calls, role) ==
    {n \in DOMAIN calls :
        LET parsed == JSONparse(calls[n].allowedRoles)
        IN  ~parsed.threw /\ includes(parsed.value, role)}

\* findMany({where: {enabled: true}}) filtered by the caller's role; an
\* operation whose allowedRoles does not parse is left out.
availableCalls(calls, role) ==
    {n \in DOMAIN calls :
        /\ calls[n].enabled
        /\ LET parsed == JSONparse(calls[n].allowedRoles)
           IN  ~parsed.threw /\ includes(parsed.value, role)}

\* GET /api/syscall: the names listed are carried in the response's entries.
GetSyscalls ==
    /\ \E token \in Tokens \cup {NoToken}, dbOk \in BOOLEAN :
         view' = IF token = NoToken THEN ReadRefused("/api/syscall", token, NoQuery)
                 ELSE IF ~dbOk
                 THEN [NoView EXCEPT !.route = "/api/syscall", !.caller = token,
                                     !.status = 500]
                 ELSE [NoView EXCEPT !.route = "/api/syscall", !.caller = token,
                                     !.status = 200,
                                     !.entries = availableCalls(systemCalls, token.role)]
    /\ UNCHANGED <<fsVars, cmdVars, pipeVars>>
    /\ UNCHANGED <<adminVars, logins, execCall, fileVars>>

NextList == GetSyscalls

SpecList == InitTables /\ [][NextList]_vars

\* ------------------------------------------------------------ files written and read
MaxFileOps == 3

\* Text is a sequence of UTF-16 code units; "lone_surrogate" is a surrogate
\* without its pair, which UTF-8 cannot carry.
utf8Encode(text) ==
    LET unit(u) == CASE u = "h" -> <<104>>
                     [] u = "e_acute" -> <<195, 169>>
                     [] u = "U+FFFD" -> <<239, 191, 189>>
                     [] u = "lone_surrogate" -> <<239, 191, 189>>
        RECURSIVE enc(_)
        enc(t) == IF t = <<>> THEN <<>> ELSE unit(Head(t)) \o enc(Tail(t))
    IN  enc(text)

utf8Decode(bytes) ==
    LET RECURSIVE dec(_)
        dec(b) ==
            IF b = <<>> THEN <<>>
            ELSE IF b[1] = 104 THEN <<"h">> \o dec(Tail(b))
            ELSE IF Len(b) >= 2 /\ b[1] = 195 /\ b[2] = 169
                 THEN <<"e_acute">> \o dec(SubSeq(b, 3, Len(b)))
            ELSE IF Len(b) >= 3 /\ b[1] = 239 /\ b[2] = 191 /\ b[3] = 189
                 THEN <<"U+FFFD">> \o dec(SubSeq(b, 4, Len(b)))
            ELSE <<"U+FFFD">> \o dec(Tail(b))
    IN  dec(bytes)

\* the directories above a resolved path, from the sandbox root down
ParentDirs(path) ==
    {SubSeq(path, 1, i - 1) : i \in {j \in 2..Len(path) : path[j] = "/"}}

IsDirectory(path) == path \in DOMAIN files /\ files[path].kind = "dir"

IsFile(path) == path \in DOMAIN files /\ files[path].kind = "file"

\* fs.mkdir(path.dirname(safePath), {recursive: true})
mkdirParents(path) ==
    [q \in DOMAIN files \cup {d \in ParentDirs(path) : Len(d) > 0} |->
        IF q \in DOMAIN files THEN files[q] ELSE DirNode]

Done(op, p, content, result, returned) ==
    Append(fileOps, [op |-> op, userPath |-> p, content |-> content,
                     result |-> result, returned |-> returned])

\* writeFile(userPath, content) against the host's files
WriteFileOp(p, content) ==
    LET s == sanitizePath(p)
    IN  /\ Len(fileOps) < MaxFileOps
        /\ IF s.raised
           THEN /\ files' = files
                /\ fileOps' = Done("writeFile", p, content, "sandboxError", <<>>)
           ELSE IF \E d \in ParentDirs(s.path) : IsFile(d)
           THEN /\ files' = files
                /\ fileOps' = Done("writeFile", p, content, "hostError", <<>>)
           ELSE IF IsDirectory(s.path)
           THEN /\ files' = mkdirParents(s.path)
                /\ fileOps' = Done("writeFile", p, content, "hostError", <<>>)
           ELSE /\ files' = [q \in DOMAIN mkdirParents(s.path) \cup {s.path} |->
                                IF q = s.path
                                THEN [kind |-> "file", bytes |-> utf8Encode(content)]
                                ELSE mkdirParents(s.path)[q]]
                /\ fileOps' = Done("writeFile", p, content, "ok", <<>>)
        /\ UNCHANGED <<fsVars, cmdVars, pipeVars>>
        /\ UNCHANGED <<adminVars, view, logins, execCall>>

\* a read that decodes the stored bytes one byte a character (Latin-1)
ReadFileLatin1(p) ==
    LET s == sanitizePath(p)
        latin1(b) == [i \in 1..Len(b) |->
                        CASE b[i] = 104 -> "h"
                          [] b[i] = 195 -> "A_tilde"
                          [] b[i] = 169 -> "copyright"
                          [] OTHER -> "other"]
    IN  /\ Len(fileOps) < MaxFileOps
        /\ fileOps' = IF s.raised THEN Done("readFile", p, <<>>, "sandboxError", <<>>)
                      ELSE IF ~IsFile(s.path) THEN Done("readFile", p, <<>>, "hostError", <<>>)
                      ELSE Done("readFile", p, <<>>, "ok", latin1(files[s.path].bytes))
        /\ UNCHANGED files
        /\ UNCHANGED <<fsVars, cmdVars, pipeVars>>
        /\ UNCHANGED <<adminVars, view, logins, execCall>>

\* readFile(userPath) against the host's files
ReadFileOp(p) ==
    LET s == sanitizePath(p)
    IN  /\ Len(fileOps) < MaxFileOps
        /\ fileOps' = IF s.raised THEN Done("readFile", p, <<>>, "sandboxError", <<>>)
                      ELSE IF ~IsFile(s.path) THEN Done("readFile", p, <<>>, "hostError", <<>>)
                      ELSE Done("readFile", p, <<>>, "ok", utf8Decode(files[s.path].bytes))
        /\ UNCHANGED files
        /\ UNCHANGED <<fsVars, cmdVars, pipeVars>>
        /\ UNCHANGED <<adminVars, view, logins, execCall>>

\* deleteFile(userPath) against the host's files
DeleteFileOp(p) ==
    LET s == sanitizePath(p)
    IN  /\ Len(fileOps) < MaxFileOps
        /\ IF s.raised
           THEN /\ files' = files
                /\ fileOps' = Done("deleteFile", p, <<>>, "sandboxError", <<>>)
           ELSE IF ~IsFile(s.path)
           THEN /\ files' = files
                /\ fileOps' = Done("deleteFile", p, <<>>, "hostError", <<>>)
           ELSE /\ files' = [q \in DOMAIN files \ {s.path} |-> files[q]]
                /\ fileOps' = Done("deleteFile", p, <<>>, "ok", <<>>)
        /\ UNCHANGED <<fsVars, cmdVars, pipeVars>>
        /\ UNCHANGED <<adminVars, view, logins, execCall>>

\* The paths clients name: a file, the same file with a traversal attempt
\* and by its absolute path, a file below it, the root itself, and a path
\* outside the sandbox.
FilePathInputs ==
    { <<"x">>, <<"x", ".", ".">>, <<"/", "w", "/", "r", "/", "x">>, <<"x", "/", "x">>,
      <<>>, <<"/", "x">> }

ContentInputs == { <<>>, <<"h">>, <<"h", "e_acute">>, <<"lone_surrogate">> }

InitFiles == Init

NextFiles ==
    \/ \E p \in FilePathInputs, content \in ContentInputs : WriteFileOp(p, content)
    \/ \E p \in FilePathInputs : ReadFileOp(p)
    \/ \E p \in FilePathInputs : DeleteFileOp(p)

SpecFiles == InitFiles /\ [][NextFiles]_vars

\* ------------------------------------------------------------ executeSyscall alone
\* executeSyscall called with any operation name and any parameters value,
\* validated or not.
ExecNames == DOMAIN SeedAllowedRoles \cup {"noSuchCall"}

ExecParamInputs ==
    { NoParams,
      EmptyObject,
      [EmptyObject EXCEPT !.path = Str(1)],
      [EmptyObject EXCEPT !.path = Arr(1)],
      [EmptyObject EXCEPT !.path = Str(1), !.content = Str(2)],
      [EmptyObject EXCEPT !.path = Str(1), !.content = Arr(2)],
      [EmptyObject EXCEPT !.command = Str(3)],
      [EmptyObject EXCEPT !.command = Arr(1)] }

CallExecuteSyscall ==
    /\ execCall.pc = "ready"
    /\ \E host \in HostOutcomes(execCall.name) :
         execCall' = [execCall EXCEPT
                         !.pc = "done",
                         !.result = executeSyscall(execCall.name, execCall.params, host)]
    /\ UNCHANGED <<fsVars, cmdVars, pipeVars>>
    /\ UNCHANGED <<adminVars, view, logins, fileVars>>

InitExec ==
    /\ \E name \in ExecNames, params \in ExecParamInputs :
         execCall = [pc |-> "ready", name |-> name, params |-> params, result |-> NoResult]
    /\ IdleAdmin /\ IdleView /\ IdleFiles
    /\ IdleFs /\ IdleCmd
    /\ InitPipe

NextExec == CallExecuteSyscall

SpecExec == InitExec /\ [][NextExec]_vars

\* ------------------------------------------------------------ the administrative surface
\* The callers of the administrative routes: the administrator, a viewer,
\* and a client without a session.
AdminCallers ==
    { [id |-> "admin", role |-> "ADMIN"], [id |-> "viewer", role |-> "VIEWER"], NoToken }

MaxCreated == 3

MaxAdminLogs == 2

DayMs == 24 * 60 * 60 * 1000

\* The ids the User table gives the rows created after seeding, in order.
IdName == <<"u1", "u2", "u3", "u4", "u5">>

\* The relation SystemCallLog.user is declared in prisma/schema.prisma:
\* deleting a user that audit entries reference either removes those
\* entries with it or is refused by the database.
OnDeleteUser == {"Cascade", "Restrict"}

\* GET /api/admin/users
ListUsers ==
    /\ \E caller \in AdminCallers :
         adminResp' = Answer("GET /api/admin/users", caller,
                             AdminGate(caller, "/api/admin/users"))
    /\ UNCHANGED <<users, loginAttempts, created>>
    /\ UNCHANGED <<fsVars, cmdVars, pipeVars, view, logins, execCall, fileVars>>

\* GET /api/admin/policies
ListPolicies ==
    /\ \E caller \in AdminCallers :
         adminResp' = Answer("GET /api/admin/policies", caller,
                             AdminGate(caller, "/api/admin/policies"))
    /\ UNCHANGED <<users, loginAttempts, created>>
    /\ UNCHANGED <<fsVars, cmdVars, pipeVars, view, logins, execCall, fileVars>>

\* The bodies sent to POST /api/admin/users: a new viewer, a new
\* administrator under the address of a default account, one without a
\* password, and one whose email is no email.
UserInputs ==
    { [email |-> "custom@syscall.local", role |-> "VIEWER", password |-> TRUE],
      [email |-> "power@syscall.local", role |-> "ADMIN", password |-> TRUE],
      [email |-> "custom@syscall.local", role |-> "ADMIN", password |-> FALSE],
      [email |-> "", role |-> "VIEWER", password |-> TRUE] }

\* userSchema.safeParse(body)
userSchemaAccepts(body) == body.email # "" /\ body.role \in Roles

\* POST /api/admin/users
PostUser ==
    /\ \E caller \in AdminCallers, body \in UserInputs :
         LET gate == AdminGate(caller, "/api/admin/users")
             existing == \E u \in users : u.email = body.email
             status == IF gate # 200 THEN gate
                       ELSE IF ~userSchemaAccepts(body) THEN 400
                       ELSE IF existing THEN 409
                       ELSE IF ~body.password THEN 400
                       ELSE 201
         IN /\ status = 201 => created < MaxCreated
            /\ users' = IF status = 201
                        THEN users \cup {[id |-> IdName[created + 1], email |-> body.email,
                                          role |-> body.role, isActive |-> TRUE]}
                        ELSE users
            /\ created' = IF status = 201 THEN created + 1 ELSE created
            /\ adminResp' = Answer("POST /api/admin/users", caller, status)
    /\ UNCHANGED loginAttempts
    /\ UNCHANGED <<fsVars, cmdVars, pipeVars, view, logins, execCall, fileVars>>

\* The bodies sent to PATCH /api/admin/users: a promotion, a deactivation,
\* the deactivation of the administrator's own account, no id, and the id
\* of no user. An absent field is "" or the empty set.
PatchInputs ==
    { [id |-> "power", role |-> "ADMIN", isActive |-> {}],
      [id |-> "viewer", role |-> "", isActive |-> {FALSE}],
      [id |-> "admin", role |-> "", isActive |-> {FALSE}],
      [id |-> "", role |-> "VIEWER", isActive |-> {}],
      [id |-> "ghost", role |-> "VIEWER", isActive |-> {}] }

\* prisma.user.update({where: {id}, data: updateData})
updateUser(u, body) ==
    [u EXCEPT !.role = IF body.role # "" THEN body.role ELSE @,
              !.isActive = IF body.isActive # {} THEN TRUE \in body.isActive ELSE @]

\* PATCH /api/admin/users
PatchUser ==
    /\ \E caller \in AdminCallers, body \in PatchInputs :
         LET gate == AdminGate(caller, "/api/admin/users")
             target == {u \in users : u.id = body.id}
             status == IF gate # 200 THEN gate
                       ELSE IF body.id = "" THEN 400
                       ELSE IF target = {} THEN 500
                       ELSE 200
         IN /\ users' = IF status = 200
                        THEN (users \ target) \cup {updateUser(u, body) : u \in target}
                        ELSE users
            /\ adminResp' = Answer("PATCH /api/admin/users", caller, status)
    /\ UNCHANGED <<loginAttempts, created>>
    /\ UNCHANGED <<fsVars, cmdVars, pipeVars, view, logins, execCall, fileVars>>

\* The ids sent to DELETE /api/admin/users: a user with audit entries, the
\* caller's own, none, and the id of no user.
DeleteIds == {"viewer", "admin", "", "ghost"}

\* DELETE /api/admin/users?id=
DeleteUser ==
    /\ \E caller \in AdminCallers, id \in DeleteIds, onDelete \in OnDeleteUser :
         LET gate == AdminGate(caller, "/api/admin/users")
             target == {u \in users : u.id = id}
             referenced == \E i \in 1..Len(logs) : logs[i].userId = id
             status == IF gate # 200 THEN gate
                       ELSE IF id = "" THEN 400
                       ELSE IF id = caller.id THEN 400
                       ELSE IF target = {} THEN 500
                       ELSE IF referenced /\ onDelete = "Restrict" THEN 500
                       ELSE 200
         IN /\ users' = IF status = 200 THEN users \ target ELSE users
            /\ logs' = IF status = 200
                       THEN SelectSeq(logs, LAMBDA e : e.userId # id)
                       ELSE logs
            /\ adminResp' = Answer("DELETE /api/admin/users", caller, status)
    /\ UNCHANGED <<loginAttempts, created>>
    /\ UNCHANGED <<systemCalls, policies, now, req>>
    /\ UNCHANGED <<fsVars, cmdVars, view, logins, execCall, fileVars>>

\* The two accounts the reset creates again.
DefaultAccounts ==
    { [email |-> "power@syscall.local", role |-> "POWER_USER", nth |-> 1],
      [email |-> "viewer@syscall.local", role |-> "VIEWER", nth |-> 2] }

\* The policy rows the reset creates: one for every operation and every
\* role, allowed where the operation lists the role, viewers capped at 10.
ResetPolicies(calls) ==
    { [role |-> r, syscallName |-> n,
       allowed |-> includes(JSONparse(calls[n].allowedRoles).value, r),
       maxExecutions |-> IF r = "VIEWER" THEN {10} ELSE Null] :
        r \in Roles, n \in DOMAIN calls }

\* POST /api/admin/reset. The statements run one after another outside any
\* transaction: when createMany meets an administrator who holds the email
\* of a default account it throws, the deletions before it stay, and the
\* answer is 500. The operations' allowedRoles are the seed's JSON texts, so
\* JSON.parse does not throw here.
Reset ==
    /\ \E caller \in AdminCallers :
         LET gate == AdminGate(caller, "/api/admin/reset")
             admins == {u \in users : u.role = "ADMIN"}
             conflict == \E u \in admins, d \in DefaultAccounts : u.email = d.email
             status == IF gate # 200 THEN gate ELSE IF conflict THEN 500 ELSE 200
         IN /\ status = 200 => created + 2 <= MaxCreated
            /\ logs' = IF gate = 200 THEN <<>> ELSE logs
            /\ loginAttempts' = IF gate = 200 THEN <<>> ELSE loginAttempts
            /\ users' = IF gate # 200 THEN users
                        ELSE IF conflict THEN admins
                        ELSE admins \cup {[id |-> IdName[created + d.nth], email |-> d.email,
                                           role |-> d.role, isActive |-> TRUE] :
                                            d \in DefaultAccounts}
            /\ created' = IF status = 200 THEN created + 2 ELSE created
            /\ policies' = IF status = 200 THEN ResetPolicies(systemCalls) ELSE policies
            /\ adminResp' = Answer("POST /api/admin/reset", caller, status)
    /\ UNCHANGED <<systemCalls, now, req>>
    /\ UNCHANGED <<fsVars, cmdVars, view, logins, execCall, fileVars>>

\* The retention periods handed to the purge, in days: none, one that
\* separates the entries, and one longer than the log is old.
DaysToKeepInputs == {0, 1, 20}

\* cleanupOldLogs(daysToKeep)
cleanupOldLogs ==
    /\ \E daysToKeep \in DaysToKeepInputs :
         LET threshold == now - daysToKeep * DayMs IN
         logs' = SelectSeq(logs, LAMBDA e : ~(e.timestamp < threshold))
    /\ UNCHANGED <<systemCalls, policies, now, req>>
    /\ UNCHANGED <<fsVars, cmdVars, sideVars>>

\* The policy rows an administrator submits here: a cap of zero, a
\* negative cap, a cap of 1 and a denial.
AdminPolicyInputs ==
    { [role |-> "VIEWER", syscallName |-> "getSystemInfo", allowed |-> TRUE, maxExecutions |-> {0}],
      [role |-> "VIEWER", syscallName |-> "getSystemInfo", allowed |-> TRUE, maxExecutions |-> {-1}],
      [role |-> "VIEWER", syscallName |-> "getSystemInfo", allowed |-> TRUE, maxExecutions |-> {1}],
      [role |-> "VIEWER", syscallName |-> "getSystemInfo", allowed |-> FALSE, maxExecutions |-> Null] }

\* The seeded store with the administrative responses observed, and the
\* audit log after up to MaxAdminLogs requests of the viewer and the
\* administrator, one a day.
InitAdmin ==
    /\ \E n \in 0..MaxAdminLogs :
         \E who \in [1..n -> {t \in AdminCallers : t # NoToken}] :
            logs = [i \in 1..n |->
                      [req |-> 0, userId |-> who[i].id, role |-> who[i].role,
                       syscallName |-> "getSystemInfo", status |-> "SUCCESS",
                       errorMessage |-> "", limit |-> Null,
                       timestamp |-> (i - 1) * DayMs, parameters |-> NoParams]]
    /\ systemCalls = SeedSystemCalls
    /\ policies = SeedPolicies
    /\ now = MaxAdminLogs * DayMs
    /\ req = [r \in 1..MaxReq |-> NewRequest]
    /\ users = SeedUsers
    /\ loginAttempts = <<>>
    /\ created = 0
    /\ adminResp = NoAdminResp
    /\ IdleView /\ IdleExec /\ IdleFiles
    /\ IdleFs /\ IdleCmd

NextAdmin ==
    \/ Reset
    \/ cleanupOldLogs
    \/ ListUsers
    \/ PostUser
    \/ PatchUser
    \/ DeleteUser
    \/ ListPolicies
    \/ PostPolicy(AdminPolicyInputs)
    \/ PatchPolicy

SpecAdmin == InitAdmin /\ [][NextAdmin]_vars

\* ------------------------------------------------------------ signing in
MaxLogins == 3

\* MAX_LOGIN_ATTEMPTS and LOGIN_TIMEOUT_MINUTES of the environment; the
\* defaults are 5 attempts and 15 minutes.
MaxLoginAttempts == 2

LoginTimeoutMs == 15 * 60 * 1000

\* logLoginAttempt(email, successful, ipAddress, userAgent, userId)
logLoginAttempt(email, successful, ipAddress) ==
    Append(loginAttempts, [email |-> email, successful |-> successful,
                           ipAddress |-> ipAddress, timestamp |-> now])

\* checkLoginRateLimit(email, ipAddress).allowed
checkLoginRateLimit(email, ipAddress) ==
    LET timeThreshold == now - LoginTimeoutMs
        failed(field, value) ==
            Cardinality({i \in 1..Len(loginAttempts) :
                /\ loginAttempts[i][field] = value
                /\ ~loginAttempts[i].successful
                /\ loginAttempts[i].timestamp >= timeThreshold})
    IN  /\ failed("email", email) < MaxLoginAttempts
        /\ failed("ipAddress", ipAddress) < MaxLoginAttempts * 2

\* The credentials submitted: the address of an account that may have
\* been deactivated or of nobody, from one of two origins, with a password
\* that matches the account's or does not, or with none at all.
CredentialInputs ==
    [email : {"viewer@syscall.local", "nobody@syscall.local"},
     password : {"", "right", "wrong"},
     ipAddress : {"ip1", "ip2"}]

\* authorize(credentials): the user for the session token, or null.  It
\* calls neither checkLoginRateLimit nor logLoginAttempt.
authorize(credentials, dbOk) ==
    LET found == {u \in users : u.email = credentials.email}
    IN  IF credentials.email = "" \/ credentials.password = "" THEN NoToken
        ELSE IF ~dbOk THEN NoToken
        ELSE IF found = {} \/ \E u \in found : ~u.isActive THEN NoToken
        ELSE IF credentials.password # "right" THEN NoToken
        ELSE LET user == CHOOSE u \in found : TRUE
             IN  [id |-> user.id, role |-> user.role]

\* A sign-in through the credentials provider.
SignIn ==
    /\ Len(logins) < MaxLogins
    /\ \E credentials \in CredentialInputs, dbOk \in BOOLEAN :
         logins' = Append(logins, [email |-> credentials.email,
                                   password |-> credentials.password,
                                   ipAddress |-> credentials.ipAddress,
                                   at |-> now,
                                   session |-> authorize(credentials, dbOk)])
    /\ UNCHANGED <<fsVars, cmdVars, pipeVars>>
    /\ UNCHANGED <<adminVars, view, execCall, fileVars>>

\* The seeded store, the viewer's account active or deactivated.
InitAuth ==
    /\ \E active \in BOOLEAN :
         users = {IF u.id = "viewer" THEN [u EXCEPT !.isActive = active] ELSE u :
                    u \in SeedUsers}
    /\ loginAttempts = <<>>
    /\ created = 0
    /\ adminResp = Unobserved
    /\ IdleView /\ IdleExec /\ IdleFiles
    /\ IdleFs /\ IdleCmd
    /\ InitPipe

NextAuth == SignIn \/ Tick

SpecAuth == InitAuth /\ [][NextAuth]_vars

\* ------------------------------------------------------------ sessions and the User table
\* Requests under the session tokens issued to the seeded power user and
\* viewer, while the administrator changes or deletes these users.  The
\* token carries the id and role of the moment it was issued (the jwt and
\* session callbacks); the route reads nothing else about the user.
StaleInputs ==
    [tokens |-> {[id |-> "power", role |-> "POWER_USER"], [id |-> "viewer", role |-> "VIEWER"]},
     names |-> {"getSystemInfo"}, params |-> {NoParams}, overlap |-> FALSE]

NextStale ==
    \/ \E r \in DOMAIN req : Arrive(r, StaleInputs)
    \/ Handle
    \/ PatchUser
    \/ DeleteUser

SpecStale == Init /\ [][NextStale]_vars

\* ============================================================ claims

\* ---- C1
\* The resolved sandbox root and true containment: a path is inside the
\* sandbox when the root's segments are a prefix of its segments.
SandboxRootSegs == <<<<"w">>, <<"r">>>>

InsideSandbox(p) ==
    LET segs == NormalizeSegs(split(p, "/"), 1, <<>>)
    IN  /\ IsAbsolute(p)
        /\ Len(segs) >= Len(SandboxRootSegs)
        /\ SubSeq(segs, 1, Len(SandboxRootSegs)) = SandboxRootSegs

\* C1: whatever path string a file operation is given, sanitizePath either
\* raises or returns the sandbox root or a descendant of it, so no host
\* access of listDirectory, readFile, writeFile or deleteFile lies outside
\* the sandbox root.
C1_NoAccessOutsideSandbox ==
    /\ fsPc = "done" =>
          LET s == sanitizePath(userPath) IN s.raised \/ InsideSandbox(s.path)
    /\ \A a \in fsAccess : InsideSandbox(a.path)

\* ---- C8
\* The first token of a command, delimited by any whitespace character.
RECURSIVE TokenUpToWhitespace(_)
TokenUpToWhitespace(s) ==
    IF s = <<>> \/ Head(s) \in {" ", "\t"} THEN <<>>
    ELSE <<Head(s)>> \o TokenUpToWhitespace(Tail(s))

FirstToken(cmd) == TokenUpToWhitespace(trimStart(cmd))

LowerCaseOf(s) == [i \in 1..Len(s) |-> IF s[i] = "D" THEN "d" ELSE s[i]]

C9_OnlyWhitelistedProgramsRun ==
    \A w \in spawned : LowerCaseOf(w) \in WHITELISTED_COMMANDS

\* ---- helpers of the pipeline claims
Responded(r) == req[r].pc = "responded"

\* the audit entries written for request r
EntriesOf(r) == {i \in 1..Len(logs) : logs[i].req = r}

Passed(r, stage) == includes(req[r].stages, stage)

\* checkPolicy has returned for request r
PolicyDecided(r) == Passed(r, "authorize") /\ req[r].pc \notin {"cpFind", "cpCount"}

\* the roles the stored allowedRoles text lists; none when it is no JSON
ListedRoles(name) ==
    IF name \notin DOMAIN systemCalls \/ systemCalls[name].allowedRoles = NotJson THEN {}
    ELSE {systemCalls[name].allowedRoles[i] : i \in 1..Len(systemCalls[name].allowedRoles)}

\* ---- C2
\* C2: a request whose role is not in the operation's eligible-roles list
\* (an unparsable list has no roles) is denied by checkPolicy whatever policy
\* rows exist for the pair, and no executor runs for it.
C2_IneligibleRoleDenied ==
    \A r \in DOMAIN req :
        (PolicyDecided(r) /\ ~req[r].readFailed
            /\ req[r].token.role \notin ListedRoles(req[r].syscallName))
        => (~req[r].policyCheck.allowed /\ ~req[r].executed /\ ~Passed(r, "execute"))

\* an enabled operation whose list does not parse, a policy row that allows
\* the caller's role, and the request denied for lack of permission
C2_Witness ==
    \E r \in DOMAIN req :
        /\ Responded(r)
        /\ systemCalls[req[r].syscallName].allowedRoles = NotJson
        /\ systemCalls[req[r].syscallName].enabled
        /\ \E p \in policies :
              p.role = req[r].token.role /\ p.syscallName = req[r].syscallName /\ p.allowed
        /\ req[r].response = Response(403, "Insufficient permissions for this system call")
        /\ ~req[r].executed

\* ---- C3
\* the SUCCESS entries of a role and operation, of whatever user, not older
\* than 60 minutes at instant t
SuccessesWithinHour(role, name, t) ==
    {i \in 1..Len(logs) :
        /\ logs[i].status = "SUCCESS"
        /\ logs[i].role = role
        /\ logs[i].syscallName = name
        /\ t - logs[i].timestamp <= 60 * 60 * 1000}

\* C3: when checkPolicy meets an allowing policy row with a cap N >= 1 for an
\* enabled operation and an eligible role, the attempt is denied with the
\* rate-limit reason citing N exactly if N or more SUCCESS entries of that role
\* and operation (any user; DENIED and ERROR entries not counted) are at most
\* 60 minutes old, and is allowed otherwise.
C3_RateLimit ==
    [][\A r \in DOMAIN req :
        /\ \* the cap of the policy row is the one enforced
           (req[r].pc = "cpFind" /\ req'[r].pc # "cpFind" /\ ~req'[r].readFailed)
             => \A p \in policies :
                  ( /\ p.role = req[r].token.role
                    /\ p.syscallName = req[r].syscallName
                    /\ p.allowed
                    /\ \E n \in p.maxExecutions : n >= 1
                    /\ systemCalls[p.syscallName].enabled
                    /\ p.role \in ListedRoles(p.syscallName) )
                  => ( /\ req'[r].pc = "cpCount"
                       /\ req'[r].max = p.maxExecutions
                       /\ req'[r].checkedAt = now )
        /\ \* the verdict follows the successes of the trailing hour
           (req[r].pc = "cpCount" /\ req'[r].pc # "cpCount" /\ ~req'[r].readFailed)
             => \A n \in req[r].max :
                  LET recent == SuccessesWithinHour(req[r].token.role, req[r].syscallName,
                                                    req[r].checkedAt)
                  IN  IF Cardinality(recent) >= n
                      THEN /\ req'[r].policyCheck = RateLimited({n})
                           /\ req'[r].pc = "log"
                           /\ req'[r].answer.status = 403
                      ELSE req'[r].policyCheck.allowed
      ]_vars

\* a viewer denied for the cap of 1 that another viewer's success used up
C3_Witness ==
    \E r \in DOMAIN req :
        /\ Responded(r)
        /\ req[r].policyCheck = RateLimited({1})
        /\ req[r].response.status = 403
        /\ \E i \in 1..Len(logs) :
              /\ logs[i].status = "SUCCESS"
              /\ logs[i].role = req[r].token.role
              /\ logs[i].syscallName = req[r].syscallName
              /\ logs[i].userId # req[r].token.id

\* ---- C4
\* C4: a responded request that had a session and an operation name has
\* exactly one audit entry, a request without a session has none (storage
\* being available throughout the request).
C4_ExactlyOneAuditEntry ==
    \A r \in DOMAIN req :
        (Responded(r) /\ ~req[r].readFailed /\ ~req[r].writeFailed)
        => IF req[r].token # NoToken /\ req[r].syscallName # ""
           THEN Cardinality(EntriesOf(r)) = 1
           ELSE EntriesOf(r) = {}

\* ---- C5
StageRank(stage) ==
    CASE stage = "authenticate" -> 1
      [] stage = "lookup" -> 2
      [] stage = "authorize" -> 3
      [] stage = "validate" -> 4
      [] stage = "execute" -> 5
      [] stage = "log" -> 6
      [] stage = "respond" -> 7

\* C5: the stages of a request occur in the order authenticate, lookup,
\* authorize, validate, execute, log, respond; validation runs only after
\* authorization allowed, the executor only after that and a passed
\* validation, and once the operation has been looked up the response
\* follows the audit write.
C5_StageOrder ==
    \A r \in DOMAIN req :
        LET st == req[r].stages IN
        /\ \A i, j \in 1..Len(st) : i < j => StageRank(st[i]) < StageRank(st[j])
        /\ Passed(r, "validate") => (Passed(r, "authorize") /\ req[r].policyCheck.allowed)
        /\ (~req[r].policyCheck.allowed /\ PolicyDecided(r)) => ~Passed(r, "validate")
        /\ (Passed(r, "execute") \/ req[r].executed \/ req[r].pc = "execute")
              => ( /\ Passed(r, "validate")
                   /\ req[r].policyCheck.allowed
                   /\ SchemaAccepts(req[r].syscallName, req[r].parameters) )
        /\ (Passed(r, "respond") /\ Passed(r, "lookup") /\ ~req[r].readFailed)
              => Passed(r, "log")
        /\ (Passed(r, "respond") /\ Passed(r, "authorize")) => Passed(r, "log")

\* a request that went through every stage
C5_Witness ==
    \E r \in DOMAIN req :
        /\ Responded(r)
        /\ req[r].stages = <<"authenticate", "lookup", "authorize", "validate",
                             "execute", "log", "respond">>
        /\ req[r].response.status = 200

\* ---- C6
\* C6: every request refused because the operation is missing or because
\* checkPolicy denied it has an audit entry with status DENIED that carries
\* the reason returned to the client (storage being available).
C6_DenialsLoggedDenied ==
    \A r \in DOMAIN req :
        (Responded(r) /\ ~req[r].writeFailed /\ req[r].response.status \in {403, 404})
        => \E i \in EntriesOf(r) :
              /\ logs[i].status = "DENIED"
              /\ logs[i].errorMessage = req[r].response.body

\* ---- C7
\* C7: a storage read that fails inside checkPolicy makes it return
\* allowed=false with reason "Policy check failed", and no request that met a
\* failed storage read runs an executor.
C7_FailsClosed ==
    \A r \in DOMAIN req :
        /\ (req[r].readFailed /\ PolicyDecided(r))
              => req[r].policyCheck = Denied("Policy check failed")
        /\ req[r].readFailed
              => (~req[r].executed /\ ~Passed(r, "execute") /\ req[r].pc # "execute")

\* a request denied because the rate-limit count could not be read
C7_Witness ==
    \E r \in DOMAIN req :
        /\ Responded(r)
        /\ req[r].readFailed
        /\ req[r].max # Null
        /\ req[r].response = Response(403, "Policy check failed")
        /\ ~req[r].executed

\* ---- C10
\* C10: 401 without a valid session, 404 for an unknown operation, 403 when
\* authorization denies, 400 when validation fails, 500 when execution
\* fails, and the success body otherwise.
C10_StatusPerFailureClass ==
    \A r \in DOMAIN req :
        Responded(r) =>
            /\ req[r].token = NoToken => req[r].response.status = 401
            /\ (Passed(r, "lookup") /\ ~req[r].readFailed
                    /\ req[r].syscallName \notin DOMAIN systemCalls)
                  => req[r].response.status = 404
            /\ (PolicyDecided(r) /\ ~req[r].policyCheck.allowed)
                  => req[r].response.status = 403
            /\ (Passed(r, "validate")
                    /\ ~SchemaAccepts(req[r].syscallName, req[r].parameters))
                  => req[r].response.status = 400
            /\ (req[r].executed /\ req[r].entry.status = "ERROR")
                  => req[r].response.status = 500
            /\ (req[r].executed /\ req[r].entry.status = "SUCCESS")
                  => req[r].response = Response(200, "success")

\* ---- C11
\* C11: the status of a request's audit entry is SUCCESS exactly when the
\* executor succeeded, and then the client gets the success body; it is ERROR
\* with the validation message and a 400 when the parameters fail the schema,
\* and ERROR with the executor's message and a 500 when execution fails.
C11_AuditStatusIsOutcome ==
    \A r \in DOMAIN req :
        Responded(r) =>
            \A i \in EntriesOf(r) :
                /\ logs[i].status = "SUCCESS"
                      <=> (req[r].executed /\ req[r].result.success)
                /\ logs[i].status = "SUCCESS" => req[r].response = Response(200, "success")
                /\ (Passed(r, "validate")
                        /\ ~SchemaAccepts(req[r].syscallName, req[r].parameters))
                      => ( /\ logs[i].status = "ERROR"
                           /\ logs[i].errorMessage = "Validation error"
                           /\ req[r].response.status = 400 )
                /\ (req[r].executed /\ ~req[r].result.success)
                      => ( /\ logs[i].status = "ERROR"
                           /\ logs[i].errorMessage = req[r].result.error
                           /\ req[r].response = Response(500, req[r].result.error) )
                /\ req[r].response.status # 200 => logs[i].status # "SUCCESS"

\* a write refused by the path sanitizer, logged as the error it was
C11_Witness ==
    \E r \in DOMAIN req :
        /\ Responded(r)
        /\ req[r].syscallName = "writeFile"
        /\ req[r].executed
        /\ req[r].result.error = "Invalid path: Access denied outside safe directory"
        /\ \E i \in EntriesOf(r) : logs[i].status = "ERROR"
        /\ req[r].response.status = 500

\* ---- C15
\* C15: executeSyscall never throws; whatever the name and the parameters, it
\* returns success, or a failure that carries the error.
C15_ExecuteSyscallNeverThrows ==
    execCall.pc = "done" =>
        /\ ~execCall.result.threw
        /\ execCall.result.success \/ execCall.result.error # ""
        /\ execCall.result.success => execCall.result.error = ""

\* an operation name without executor, called without parameters
C15_Witness ==
    /\ execCall.pc = "done"
    /\ execCall.name = "noSuchCall"
    /\ ~execCall.params.defined
    /\ execCall.result = [threw |-> FALSE, success |-> FALSE, error |-> "Unknown system call"]

\* ---- C12
\* C12: the response of a request whose audit write was attempted is the one
\* determined before the write, whether the write failed or not:
\* logSystemCall does not throw into the handler.
C12_LogFailureKeepsResponse ==
    \A r \in DOMAIN req :
        (Responded(r) /\ Passed(r, "log")) => req[r].response = req[r].answer

\* a successful execution answered with the success body although its audit
\* write failed
C12_Witness ==
    \E r \in DOMAIN req :
        /\ Responded(r)
        /\ req[r].writeFailed
        /\ EntriesOf(r) = {}
        /\ req[r].result.success
        /\ req[r].response = Response(200, "success")

\* ---- C13
\* C13: in every stored audit entry a password, token, secret, key or apiKey
\* field of the submitted parameters holds the redaction marker, a content
\* string longer than 500 characters is stored as its first 500 characters
\* and the truncation marker, and every other field is stored as submitted.
C13_StoredParametersSanitized ==
    \A r \in DOMAIN req :
        Responded(r) =>
            \A i \in EntriesOf(r) :
                LET sent == req[r].parameters
                    stored == logs[i].parameters
                IN  stored.defined =>
                      \A f \in DOMAIN sent \ {"defined"} :
                          IF f \in {"password", "token", "secret", "key", "apiKey"}
                                /\ sent[f] # Absent
                          THEN stored[f] = [type |-> "redacted", len |-> 10]
                          ELSE IF f = "content" /\ sent[f].type = "string" /\ sent[f].len > 500
                          THEN stored[f] = [type |-> "truncated", len |-> 500]
                          ELSE stored[f] = sent[f]

\* a stored entry whose password is redacted, whose long content is
\* truncated and whose path is kept
C13_Witness ==
    \E r \in DOMAIN req :
        /\ Responded(r)
        /\ req[r].parameters.password = Str(8)
        /\ req[r].parameters.content = Str(501)
        /\ \E i \in EntriesOf(r) :
              /\ logs[i].parameters.password = Redacted
              /\ logs[i].parameters.content = Truncated(Str(501))
              /\ logs[i].parameters.path = Str(1)

\* ---- C14
\* the audit log without the entries of users other than id
OwnEntries(table, id) ==
    LET own(e) == e.userId = id IN SelectSeq(table, own)

\* C14: what GET /api/logs and GET /api/dashboard answer a caller whose role is
\* not ADMIN holds entries of that caller only, whatever the query, and is
\* the answer the same request gets from the log without the other users'
\* entries.
C14_NonAdminSeesOwnEntriesOnly ==
    [][(view' # view /\ view'.status = 200 /\ view'.caller.role # "ADMIN")
        => LET me == view'.caller
               mine == OwnEntries(logs, me.id)
           IN  /\ \A i \in 1..Len(view'.entries) : view'.entries[i].userId = me.id
               /\ view'.total <= Len(mine)
               /\ view' = IF view'.route = "/api/logs"
                          THEN LogsResponse(mine, me, view'.query)
                          ELSE DashboardResponse(mine, me)
      ]_vars

\* a viewer who asks for another viewer's entries and gets the own ones,
\* while the log holds entries of both
C14_Witness ==
    /\ view.route = "/api/logs"
    /\ view.caller.id = "viewer"
    /\ view.query.userId = "viewer2"
    /\ view.status = 200
    /\ view.total = 1
    /\ \E i \in 1..Len(logs) : logs[i].userId = "viewer2"
    /\ \A i \in 1..Len(view.entries) : view.entries[i].userId = "viewer"

\* ---- C16
\* text without an unpaired surrogate
WellFormedText(text) == \A i \in 1..Len(text) : text[i] # "lone_surrogate"

\* C16: a readFile(p) that follows a successful writeFile(p, c) of text c,
\* with no successful write or delete of the same file in between, succeeds
\* and returns c.
C16_WriteReadRoundTrip ==
    \A i, j \in 1..Len(fileOps) :
        ( /\ i < j
          /\ fileOps[i].op = "writeFile" /\ fileOps[i].result = "ok"
          /\ WellFormedText(fileOps[i].content)
          /\ fileOps[j].op = "readFile" /\ fileOps[j].userPath = fileOps[i].userPath
          /\ \A k \in (i + 1)..(j - 1) :
                ~ ( /\ fileOps[k].op \in {"writeFile", "deleteFile"}
                    /\ fileOps[k].result = "ok"
                    /\ sanitizePath(fileOps[k].userPath) = sanitizePath(fileOps[i].userPath) ) )
        => (fileOps[j].result = "ok" /\ fileOps[j].returned = fileOps[i].content)

\* two-byte text written through a path with a traversal attempt, a delete
\* that does not remove it, and the text read back
C16_Witness ==
    /\ Len(fileOps) = 3
    /\ fileOps[1] = [op |-> "writeFile", userPath |-> <<"x", ".", ".">>,
                      content |-> <<"h", "e_acute">>, result |-> "ok", returned |-> <<>>]
    /\ fileOps[2].op = "deleteFile"
    /\ fileOps[3] = [op |-> "readFile", userPath |-> <<"x", ".", ".">>, content |-> <<>>,
                      result |-> "ok", returned |-> <<"h", "e_acute">>]

\* ---- C17
\* C17: every operation of the administrative surface invoked by a caller
\* without a session or whose role is not ADMIN is answered 403 and leaves
\* the users, operations, policies and audit tables as they were.
C17_NonAdminRefusedWith403 ==
    [][(/\ adminResp' # adminResp
        /\ adminResp'.caller = NoToken \/ adminResp'.caller.role # "ADMIN")
          => /\ adminResp'.status = 403
             /\ UNCHANGED <<users, systemCalls, policies, logs>>]_vars

\* ---- C18
\* What checkPolicy decides for a role and an operation from the tables,
\* up to the rate-limit count.
PolicyDecision(calls, rows, role, name) ==
    checkPolicyAfterFind(name \in DOMAIN calls, calls[name],
                         {p \in rows : p.syscallName = name}, role)

\* C18: after a successful reset the store equals the seed state: the
\* audit log and the login attempts are empty, the only non-administrative
\* users are the two default accounts, the policy table holds exactly the
\* rows created at seeding, and checkPolicy decides every (role, operation)
\* as it does right after seeding.
C18_ResetRestoresSeed ==
    (adminResp.route = "POST /api/admin/reset" /\ adminResp.status = 200) =>
        /\ logs = <<>>
        /\ loginAttempts = <<>>
        /\ {[email |-> u.email, role |-> u.role] : u \in {v \in users : v.role # "ADMIN"}}
              = {[email |-> u.email, role |-> u.role] :
                    u \in {v \in SeedUsers : v.role # "ADMIN"}}
        /\ policies = SeedPolicies
        /\ \A role \in Roles, name \in DOMAIN SeedSystemCalls :
              PolicyDecision(systemCalls, policies, role, name)
                  = PolicyDecision(SeedSystemCalls, SeedPolicies, role, name)

\* ---- C19
\* C19: in every reachable state every policy row's maxExecutions is absent
\* (null) or a positive integer, so that no stored value makes checkPolicy
\* deny every attempt or skip the limit.
C19_MaxExecutionsPositive ==
    \A p \in policies : \A n \in p.maxExecutions : n \in Nat /\ n > 0

\* ---- C20
\* C20: the audit log is append-only. A step either keeps every entry as it
\* is and may add entries after them, or it is the age-based purge, which
\* removes exactly the entries older than a threshold and no younger one;
\* no other step removes or changes an entry.
C20_AuditLogAppendOnly ==
    [][\/ /\ Len(logs') >= Len(logs)
          /\ SubSeq(logs', 1, Len(logs)) = logs
       \/ /\ adminResp' = adminResp
          /\ users' = users
          /\ \E threshold \in {now - d * DayMs : d \in DaysToKeepInputs} :
                logs' = SelectSeq(logs, LAMBDA e : e.timestamp >= threshold)]_vars

\* ---- C21
\* C21: rate limiting is best-effort when requests overlap. Every request
\* that checkPolicy let through under a cap read a count of recent
\* successes below the cap, yet the SUCCESS entry is written only after the
\* execution: overlapping requests can all read a count below the cap and
\* all execute, so the SUCCESS entries of one hour exceed the cap by at
\* most the number of requests that overlap, less one.
C21_BestEffortUnderOverlap ==
    /\ \A r \in DOMAIN req :
          (req[r].pc \in {"execute", "log", "responded"} /\ req[r].max # Null
              /\ Passed(r, "validate") /\ ~req[r].readFailed)
            => \A n \in req[r].max : req[r].counted < n
    /\ Cardinality(SuccessesWithinHour("VIEWER", "getSystemInfo", now))
          <= RaceCap + (MaxRaceReq - 1)

\* two overlapping requests both counted no success under a cap of 1, both
\* executed, and the log holds two SUCCESS entries of the same hour
C21_Witness ==
    /\ Cardinality(SuccessesWithinHour("VIEWER", "getSystemInfo", now)) > RaceCap
    /\ \E p \in policies :
          p.role = "VIEWER" /\ p.syscallName = "getSystemInfo" /\ p.maxExecutions = {RaceCap}
    /\ req[2].pc = "responded" /\ req[2].counted < RaceCap
    /\ req[2].response = Response(200, "success")

\* ---- C22
\* C22: every authentication attempt, successful or failed, creates exactly
\* one LoginAttempt record carrying the attempted email, the success flag
\* and the origin address.
C22_OneLoginAttemptPerSignIn ==
    /\ Len(loginAttempts) = Len(logins)
    /\ \A i \in 1..Len(logins) :
          /\ loginAttempts[i].email = logins[i].email
          /\ loginAttempts[i].successful = (logins[i].session # NoToken)
          /\ loginAttempts[i].ipAddress = logins[i].ipAddress

\* ---- C23
\* the failed sign-ins before the j-th that are inside its lockout window
\* and share the given field with it
FailedBefore(j, field) ==
    Cardinality({i \in 1..(j - 1) :
        /\ logins[i][field] = logins[j][field]
        /\ logins[i].session = NoToken
        /\ logins[i].at >= logins[j].at - LoginTimeoutMs})

\* C23: after the configured maximum of failed logins for an email inside
\* the lockout window, or twice that number from one address, every further
\* attempt for that email or from that address is rejected, even with the
\* correct password, until failures fall out of the window.
C23_LoginLockout ==
    \A j \in 1..Len(logins) :
        (\/ FailedBefore(j, "email") >= MaxLoginAttempts
         \/ FailedBefore(j, "ipAddress") >= MaxLoginAttempts * 2)
          => logins[j].session = NoToken

\* ---- C24
\* C24: GET /api/syscall returns exactly the operations that are enabled and
\* whose eligible-roles list contains the caller's role: no disabled or
\* role-ineligible operation is listed, and every operation that checkPolicy
\* would allow for the caller is listed.
C24_ListingIsEnabledAndEligible ==
    (view.route = "/api/syscall" /\ view.status = 200) =>
        /\ view.entries = {n \in DOMAIN systemCalls :
                              systemCalls[n].enabled /\ view.caller.role \in ListedRoles(n)}
        /\ \A n \in DOMAIN systemCalls :
              PolicyDecision(systemCalls, policies, view.caller.role, n).result.allowed
                => n \in view.entries

\* a viewer's listing that leaves out an operation that lists the viewer
\* but is disabled and one that is enabled but lists no viewer, and holds
\* the rest
C24_Witness ==
    /\ view.route = "/api/syscall" /\ view.status = 200
    /\ view.caller.role = "VIEWER"
    /\ ~systemCalls["writeFile"].enabled
    /\ "writeFile" \notin view.entries
    /\ systemCalls["deleteFile"].enabled /\ "deleteFile" \notin view.entries
    /\ view.entries = {"listDirectory", "readFile", "getSystemInfo"}

\* ---- C25
\* The first rule that matches, in the stated order, for a pair whose policy
\* row, if any, carries no cap or a positive one.
FirstMatchingRule(role, name) ==
    LET rows == {p \in policies : p.role = role /\ p.syscallName = name}
    IN  IF name \notin DOMAIN systemCalls THEN Denied("System call not found")
        ELSE IF ~systemCalls[name].enabled THEN Denied("System call is disabled")
        ELSE IF role \notin ListedRoles(name)
            THEN Denied("Insufficient permissions for this system call")
        ELSE IF \E p \in rows : ~p.allowed THEN Denied("Policy denies access")
        ELSE IF \E p \in rows : \E n \in p.maxExecutions :
                    Cardinality(SuccessesWithinHour(role, name, now)) >= n
            THEN RateLimited(UNION {p.maxExecutions : p \in rows})
        ELSE Allowed

\* C25: checkPolicy decides by the first matching rule in the order: not
\* found, disabled, role not eligible, policy row with allowed = false,
\* policy row with maxExecutions reached, otherwise allowed; and returns that
\* rule's reason. An eligible role without a policy row is allowed with no
\* rate limit, and a disabled operation is denied for every role even when
\* a policy row allows it.
C25_FirstMatchingRuleDecides ==
    \A role \in Roles, name \in DOMAIN systemCalls \cup {"noSuchCall"} :
        LET rows == {p \in policies : p.role = role /\ p.syscallName = name}
        IN  (\A p \in rows : \A n \in p.maxExecutions : n >= 1) =>
              /\ checkPolicy(role, name) = FirstMatchingRule(role, name)
              /\ (name \in DOMAIN systemCalls /\ systemCalls[name].enabled
                     /\ role \in ListedRoles(name) /\ rows = {})
                    => checkPolicy(role, name) = Allowed
              /\ (name \in DOMAIN systemCalls /\ ~systemCalls[name].enabled)
                    => checkPolicy(role, name) = Denied("System call is disabled")

\* the administrator's request for a disabled operation that a policy row
\* allows is answered as disabled, while a viewer, whom the operation does
\* not list, would be told the same
C25_Witness ==
    \E r \in DOMAIN req :
        /\ Responded(r)
        /\ req[r].token.role = "ADMIN"
        /\ ~systemCalls[req[r].syscallName].enabled
        /\ \E p \in policies :
              p.role = "ADMIN" /\ p.syscallName = req[r].syscallName /\ p.allowed
        /\ req[r].response = Response(403, "System call is disabled")
        /\ checkPolicy("VIEWER", req[r].syscallName) = Denied("System call is disabled")
        /\ checkPolicy("POWER_USER", "noSuchCall") = Denied("System call not found")

C27_AuthorizedAgainstStoredUser ==
    [][\A r \in DOMAIN req :
          (req[r].pc = "new" /\ req'[r].pc = "findSyscall")
            => \E u \in users :
                  /\ u.id = req'[r].token.id
                  /\ u.isActive
                  /\ u.role = req'[r].token.role]_vars

\* ---- C28
\* C28: after any sequence of administrative user operations (create,
\* update of role or active flag, delete, reset) at least one active user
\* with role ADMIN exists.
C28_ActiveAdminExists ==
    \E u \in users : u.role = "ADMIN" /\ u.isActive

\* ---- C29
\* C29: with storage available and the acting user present, logSystemCall
\* persists an entry for every parameters value a client can send, an object
\* whose content is no string included: redaction and truncation never
\* cause the audit entry to be dropped.
C29_SanitizingNeverDropsEntry ==
    \A r \in DOMAIN req :
        (Responded(r) /\ Passed(r, "log") /\ ~req[r].writeFailed
            /\ \E u \in users : u.id = req[r].token.id)
          => \E i \in EntriesOf(r) :
                /\ logs[i].status = req[r].entry.status
                /\ logs[i].syscallName = req[r].syscallName

\* ---- C30
\* C30: the reset is all-or-nothing: when the reset request returns an
\* error, the audit log, the login attempts, the users and the policies are
\* the same as before the request.
C30_FailedResetChangesNothing ==
    [][(/\ adminResp' # adminResp
        /\ adminResp'.route = "POST /api/admin/reset"
        /\ adminResp'.status # 200)
          => UNCHANGED <<logs, loginAttempts, users, policies>>]_vars

====
